---- MODULE Spec2Model ----
(***************************************************************************)
(* LOLA OS: the Execution Engine (internal/core/engine.go), the Policy     *)
(* Enforcement Chain (internal/security/enforcer.go) and its built-in      *)
(* policies (internal/security/policies), with the SDK's session-bound EVM *)
(* client (sdk/evm/client.go) and the gateway's sign/broadcast step.       *)
(*                                                                         *)
(* Engine.Execute is modelled one step per call it makes: registry lookup  *)
(* and session set-up, the enforcer's snapshot, one policy Check per step  *)
(* (LimitPolicy's critical section and HITLPolicy's wait are further       *)
(* split), and the tool body.  Callers run concurrently.                   *)
(***************************************************************************)
EXTENDS Integers, Sequences, FiniteSets, TLC

\* ------------------------------------------------------------------ bounds
\* Largest amount a caller passes (wei, scaled).
MaxAmount == 3
\* consoleApprove activations (reader goroutines started) in one run.
MaxApprovals == 2
\* The largest RetryConfig.MaxAttempts a client is built with.
MaxAttempts == 3
\* The largest backoff duration a RetryConfig names, in time units.
MaxBackoffCfg == 3
\* The highest block the chain reaches.
MaxHeight == 3
\* The largest confirmation count asked for.
MaxConfirmations == 2
\* The most receipt queries one WaitForReceipt call makes.
MaxQueries == 3
\* The most transactions of the signer the node takes into its pool.
MaxNonce == 2
\* Session identifiers handed out by NewSession (uuid.New): 1..MaxSessions.
MaxSessions == 1
\* Longest policy list AddPolicy builds.
MaxPolicies == 2
\* The clock runs from 0 to MaxTime, in units of 12 hours.
MaxTime == 3
\* A negative amount is only passed while the recorded spend is above -MaxDebt.
MaxDebt == 1
\* Configuration values (lola.yaml security section), scaled.
MaxTxValue == 2
DailyLimit == 3
HITLThreshold == 1

\* LimitPolicy.window: 24 * time.Hour, in units of 12 hours.
Window == 2
\* The modulus of the unsigned block arithmetic (2^64, scaled down).
UintModulus == 16

\* The length of a signature [R || S || V] in bytes.
SignatureLength == 65

\* The offset of the recovery byte in crypto.Sign's older convention.
RecoveryOffset == 27

Nil == "nil"

\* ------------------------------------------------------------------ inputs
EngineCallers == {1}
LimitCallers == {1, 2}
Callers == EngineCallers \cup LimitCallers

\* Tools registered by newRuntime.
BuiltinTools == {"balance", "transfer", "deploy"}
\* Tools a host registers through sdk.RegisterTool.
CustomTools == {"swap"}
\* Names a caller may pass to Execute ("lookup" is never registered).
ToolNames == BuiltinTools \cup CustomTools \cup {"lookup"}

\* args["amount"] when it is a *big.Int.
Amounts == (0 - 1) .. MaxAmount
\* args["to"] when it is a string.
Addresses == {"A", "B"}
\* The argument maps callers pass: no key, or both keys.
EmptyArgs == [k \in {} |-> 0]
EngineArgs == {EmptyArgs} \cup {[amount |-> 1, to |-> t] : t \in Addresses}
              \cup {[amount |-> MaxAmount, to |-> "A"]}
LimitArgs == {EmptyArgs} \cup {[amount |-> a, to |-> "A"] : a \in Amounts}
LimitTools == {"transfer"}
\* Session.Chain: nil, a gateway without wallet, a gateway with wallet.
ChainKinds == {"none", "keyless", "wallet"}

\* The policy objects a host can build, with their constructor arguments.
LimitObjs == {"limitTx", "limitDaily", "limitBoth", "limitNone"}
RuntimePolicies == {"readonly", "limitTx", "limitDaily", "whitelist", "hitl"}
EnginePolicies == RuntimePolicies \ {"limitTx"}
PolicyObjs == RuntimePolicies \cup LimitObjs

\* NewLimitPolicy(maxTx, daily): which objects have p.maxTxValue != nil, and
\* its value.
HasMaxTx(p) == p \in {"limitTx", "limitBoth"}
maxTxValue(p) == MaxTxValue
\* NewLimitPolicy(maxTx, daily): which objects have p.dailyLimit != nil, and
\* its value.
HasDaily(p) == p \in {"limitDaily", "limitBoth"}
dailyLimit(p) == DailyLimit
\* NewWhitelistPolicy(allowed, blocked).
allowed == {"A"}
blocked == {"B"}

VARIABLES
    registry,    \* tools.registry.data: the registered tool names
    policies,    \* Enforcer.policies
    sessions,    \* Engine.sessions: id -> Session.Chain
    nextID,      \* the next fresh session identifier
    dailySpent,  \* LimitPolicy.dailySpent, per policy object and agent key
    dailyReset,  \* LimitPolicy.dailyReset, per policy object and agent key
    mu,          \* LimitPolicy.mu: the callers holding it
    now,         \* time.Now()
    call,        \* per caller: the Engine.Execute call in progress
    sent,        \* what reached the gateway's sign/broadcast step
    admitted,    \* history: amounts LimitPolicy.Check passed since the window's reset
    ledger,      \* history: amounts LimitPolicy.Check passed in the trailing 24 hours,
                 \* by session and time
    wl,          \* a WhitelistPolicy, the evaluation context handed to its Check,
                 \* and what Check returned
    approval,    \* per caller: HITLPolicy.consoleApprove's activation
    readers,     \* the goroutines consoleApprove started to read os.Stdin
    ctxDone,     \* per caller: whether the context passed to Execute is done
    retry,       \* Client.retry and the activation of Client.withRetry in progress
    pipe,        \* EVMGateway.wallet and the SendTransaction/DeployContract call in progress
    poll,        \* the chain as the node reports it and the WaitForReceipt call in progress
    emu,         \* Enforcer.mu: the callers holding its read lock
    sends        \* the signer's pending nonce at the node and the concurrent
                 \* SendTransaction/DeployContract calls on one gateway

vars == <<registry, policies, sessions, nextID, dailySpent, dailyReset, mu, now,
          call, sent, admitted, ledger, wl, approval, readers, ctxDone,
          retry, pipe, poll, emu, sends>>

\* ------------------------------------------------------------------ helpers
\* ReadOnlyPolicy.Check's writeTools.
writeTools == {"transfer", "send", "swap", "deploy", "approve"}

\* The agent key LimitPolicy.Check files a session's spend under.
agentID(sess) == "agent"
AgentIDs == {"agent"}

\* A caller that is not inside Execute (sess 0: no session).
IdleCall == [pc |-> "idle", tool |-> Nil, args |-> EmptyArgs,
             sess |-> 0, chain |-> Nil, transient |-> FALSE,
             snapshot |-> <<>>, idx |-> 0, consulted |-> <<>>,
             newSpent |-> 0, eval |-> "none", invoked |-> FALSE,
             committed |-> 0, result |-> Nil, deniedBy |-> Nil]

\* Faulty variant: a lookup that finds every name.
RegistryGetAny(name) == TRUE

\* registry.Get: whether the name resolves.
RegistryGet(name) == name \in registry

\* Faulty variant: only the value-bearing tools are denied.
ReadOnlyCheckValueOnly(tool) ==
    IF tool \in {"transfer", "send", "swap"} THEN "deny" ELSE "pass"

\* ReadOnlyPolicy.Check.
ReadOnlyCheck(tool) == IF tool \in writeTools THEN "deny" ELSE "pass"

\* Faulty variant: an empty allow-set admits nothing.
WhitelistPolicyCheckStrict(al, bl, kind, to) ==
    IF kind # "string" THEN "pass"
    ELSE IF to \notin al THEN "deny"
    ELSE IF to \in bl THEN "deny"
    ELSE "pass"

\* WhitelistPolicy.Check of a policy with allow-set al and deny-set bl; kind
\* tells whether args["to"] is absent, a string, or a value of another type.
WhitelistPolicyCheck(al, bl, kind, to) ==
    IF kind = "absent" THEN "pass"
    ELSE IF kind # "string" THEN "pass"
    ELSE IF al # {} /\ to \notin al THEN "deny"
    ELSE IF to \in bl THEN "deny"
    ELSE "pass"

\* WhitelistPolicy.Check of the policy the runtime installs, on string
\* destinations.
WhitelistCheck(args) ==
    IF "to" \notin DOMAIN args
    THEN WhitelistPolicyCheck(allowed, blocked, "absent", "A")
    ELSE WhitelistPolicyCheck(allowed, blocked, "string", args.to)

\* The dynamic type of args["to"].
ToKinds == {"absent", "string", "other"}

\* No WhitelistPolicy.Check under examination.
NoCheck == [allowed |-> {}, blocked |-> {}, tool |-> Nil, kind |-> "absent",
            to |-> "A", verdict |-> "none"]

\* The policies NewWhitelistPolicy builds over the addresses, and the
\* evaluation contexts their Check can be handed.
WhitelistInputs ==
    [allowed : SUBSET Addresses, blocked : SUBSET Addresses,
     tool : BuiltinTools \cup CustomTools, kind : ToKinds, to : Addresses,
     verdict : {"none"}]

\* Faulty variant: only the transfer tool is gated.
ValueBearingTransferOnly(tool, args) ==
    /\ tool = "transfer"
    /\ "amount" \in DOMAIN args

\* The tool and amount guard LimitPolicy.Check and HITLPolicy.Check share.
ValueBearing(tool, args) ==
    /\ tool \in {"transfer", "send", "swap"}
    /\ "amount" \in DOMAIN args

\* LimitPolicy.Check before it takes the lock: "pass", "deny" or "lock".
LimitPreCheck(p, tool, args) ==
    IF ~ValueBearing(tool, args) THEN "pass"
    ELSE IF HasMaxTx(p) /\ args.amount > maxTxValue(p) THEN "deny"
    ELSE IF HasDaily(p) THEN "lock"
    ELSE "pass"

\* HITLPolicy.Check before it asks: "pass" or "ask".
HITLPreCheck(tool, args) ==
    IF ~ValueBearing(tool, args) THEN "pass"
    ELSE IF args.amount <= HITLThreshold THEN "pass"
    ELSE "ask"

\* The faulty test: a window exactly 24 hours old is reset too.
WindowExpiredAtBoundary(p, a) ==
    \/ a \notin DOMAIN dailyReset[p]
    \/ now - dailyReset[p][a] >= Window

\* LimitPolicy.Check's test for an expired or missing window.
WindowExpired(p, a) ==
    \/ a \notin DOMAIN dailyReset[p]
    \/ now - dailyReset[p][a] > Window

\* The spend LimitPolicy counts for the agent at this instant.
WindowSpent(p, a) == IF WindowExpired(p, a) THEN 0 ELSE dailySpent[p][a]

\* No consoleApprove activation yet (reader 0: no goroutine).
NoApproval == [phase |-> "none", reader |-> 0, outcome |-> "none",
               response |-> "", ctxDone |-> FALSE]

\* ------------------------------------------------------------------ initial states
NoWindow == [p \in LimitObjs |-> [a \in {} |-> 0]]
NoSpend == [p \in LimitObjs |-> [a \in AgentIDs |-> 0]]

\* A client on which no RPC call was made yet, under configuration cfg.
IdleRetry(cfg) ==
    [pc |-> "idle", op |-> Nil, cfg |-> cfg, attempt |-> 0, backoff |-> 0,
     calls |-> 0, waits |-> 0, slept |-> <<>>, outcomes |-> <<>>,
     lastErr |-> Nil, result |-> "none", wrapped |-> Nil, reported |-> 0,
     ctxDone |-> FALSE, cancelledAt |-> "none"]

\* DefaultRetryConfig, durations in units of 100ms and the factor in halves.
DefaultRetryConfig == [MaxAttempts |-> 3, InitialBackoff |-> 1, MaxBackoff |-> 20,
                       BackoffFactor |-> 4]

\* An engine with idle callers and policies that have seen no call.
InitEngine ==
    /\ dailySpent = NoWindow
    /\ dailyReset = NoWindow
    /\ mu = [p \in LimitObjs |-> {}]
    /\ now = 0
    /\ call = [c \in Callers |-> IdleCall]
    /\ sent = {}
    /\ admitted = NoSpend
    /\ ledger = NoWindow
    /\ approval = [c \in Callers |-> NoApproval]
    /\ readers = <<>>
    /\ ctxDone = [c \in Callers |-> FALSE]
    /\ emu = {}

\* An optional value: the empty set is Go's nil, {v} a pointer to v.
Opt == {{}, {1}}

\* The zero TxOpts; a nil *TxOpts is read as this at every use.
ZeroOpts == [GasLimit |-> 0, GasPrice |-> {}, GasFeeCap |-> {}, GasTipCap |-> {},
             Nonce |-> {}, DynamicFee |-> FALSE]

\* No transaction built yet.
NoTx == [type |-> "none", nonce |-> {}, gas |-> 0, gasPrice |-> {},
         gasFeeCap |-> {}, gasTipCap |-> {}, signed |-> FALSE, v |-> {}]

\* A gateway on which no write call was made yet. faults records the remote
\* calls and signing attempts of the call that failed, direct the calls made
\* on the raw ethclient, handed what was passed to ec.SendTransaction.
IdlePipe(wallet) ==
    [pc |-> "idle", entry |-> Nil, wallet |-> wallet, to |-> "nil",
     opts |-> ZeroOpts, kind |-> "none", op |-> Nil, nonce |-> {}, gasLimit |-> 0,
     gasPrice |-> {}, gasFeeCap |-> {}, gasTipCap |-> {}, baseFee |-> {},
     tx |-> NoTx, sig |-> {}, handed |-> {}, broadcasts |-> 0, direct |-> {},
     faults |-> {}, result |-> "none", failed |-> Nil]

\* A chain of height 0 on which the transaction is not mined, and no
\* WaitForReceipt call yet. mined is the block holding the transaction,
\* receipt the receipt the call holds, asked the height it was given.
IdlePoll ==
    [pc |-> "idle", variant |-> Nil, confirmations |-> 0, height |-> 0,
     mined |-> {}, receipt |-> {}, asked |-> {}, queries |-> 0, result |-> "none",
     blocks |-> 0, ctxDone |-> FALSE, cancelledAt |-> "none",
     queriesAtCancel |-> 0, satOut |-> FALSE]

\* A host that built no chain gateway: no client, no write path, no poller.
NoGateway == [pc |-> "absent"]

\* The goroutines that call SendTransaction or DeployContract on one gateway.
Senders == {1, 2}

\* A goroutine outside SendTransaction. auto tells whether the nonce was
\* fetched, with the calls that were in progress at some time during this one.
IdleSend == [pc |-> "idle", auto |-> FALSE, nonce |-> {}, result |-> "none",
             with |-> {}]

\* A signer with no transaction at the node and no call in progress.
IdleSends == [pending |-> 0, calls |-> [k \in Senders |-> IdleSend]]

InitCommon ==
    /\ InitEngine
    /\ sends = NoGateway
    /\ poll = NoGateway
    /\ retry = NoGateway
    /\ pipe = NoGateway

\* NewEngine over NewEnforcer: no policy installed, no session yet.
Init ==
    /\ InitCommon
    /\ registry = BuiltinTools \cup CustomTools
    /\ wl = NoCheck
    /\ policies = <<>>
    /\ sessions = [i \in {} |-> "none"]
    /\ nextID = 1

\* An enforcer holding one LimitPolicy, of any configuration, and one session
\* created by the host (CreateSession("", nil)).
InitLimit ==
    /\ InitCommon
    /\ registry = BuiltinTools \cup CustomTools
    /\ wl = NoCheck
    /\ policies \in {<<p>> : p \in LimitObjs}
    /\ sessions = (1 :> "none")
    /\ nextID = 2

\* ------------------------------------------------------------------ sessions
\* Engine.CreateSession: a fresh identifier, stored in the table.
CreateSession(chain) ==
    /\ nextID <= MaxSessions
    /\ sessions' = (nextID :> chain) @@ sessions
    /\ nextID' = nextID + 1
    /\ UNCHANGED <<registry, policies, dailySpent, dailyReset, mu, now, call,
                   sent, admitted, ledger, wl, approval, readers, ctxDone,
                   retry, pipe, poll, emu, sends>>

\* The faulty delete: every session up to id goes.
RemovedUpTo(id) == [i \in {j \in DOMAIN sessions : j > id} |-> sessions[i]]

\* The session table without id (delete(e.sessions, id)).
Removed(id) == [i \in (DOMAIN sessions) \ {id} |-> sessions[i]]

\* Engine.CloseSession: removes the entry if it exists.
CloseSession(id) ==
    /\ sessions' = Removed(id)
    /\ UNCHANGED <<registry, policies, nextID, dailySpent, dailyReset, mu, now,
                   call, sent, admitted, ledger, wl,
                   approval, readers, ctxDone, retry, pipe, poll, emu,
                   sends>>

\* ------------------------------------------------------------------ enforcer
\* Enforcer.AddPolicy: append under the write lock, which waits for every
\* read lock to be released.
AddPolicy(p) ==
    /\ emu = {}
    /\ Len(policies) < MaxPolicies
    /\ \A i \in 1..Len(policies) : policies[i] # p
    /\ policies' = Append(policies, p)
    /\ UNCHANGED <<registry, sessions, nextID, dailySpent, dailyReset, mu, now,
                   call, sent, admitted, ledger, wl,
                   approval, readers, ctxDone, retry, pipe, poll, emu,
                   sends>>

\* Faulty variant: the loop reads the live list instead of
\* the copy.
PolicyListLive(c) == policies

\* The list Enforcer.Evaluate ranges over: its copy of e.policies.
PolicyList(c) == call[c].snapshot

\* Faulty variant: the list is walked from its last entry.
CurrentPolicyReversed(c) ==
    call[c].snapshot[Len(call[c].snapshot) + 1 - call[c].idx]

\* The policy Evaluate's loop is at.
CurrentPolicy(c) == PolicyList(c)[call[c].idx]

\* ------------------------------------------------------------------ Execute
\* The faulty return: the transient session is left in the table.
SessionsAfterReturnKept(c) == sessions

\* Execute's return: the deferred CloseSession of a transient session.
SessionsAfterReturn(c) ==
    IF call[c].transient THEN Removed(call[c].sess) ELSE sessions

\* Execute's first steps: registry.Get, then the session from the context or
\* a transient one, then the EvaluationContext.
ExecuteStart(c, tool, args, s) ==
    /\ call[c].pc = "idle"
    /\ ("amount" \in DOMAIN args /\ args.amount < 0) =>
           \A p \in LimitObjs : \A a \in DOMAIN dailySpent[p] :
               dailySpent[p][a] > 0 - MaxDebt
    /\ IF ~RegistryGet(tool)
       THEN /\ call' = [call EXCEPT ![c] =
                   [IdleCall EXCEPT !.pc = "done", !.tool = tool,
                                    !.args = args,
                                    !.result = "notfound"]]
            /\ UNCHANGED <<sessions, nextID, ledger, wl, approval, readers, ctxDone, retry, pipe,
                   poll, emu, sends>>
       ELSE IF s = 0
       THEN /\ nextID <= MaxSessions
            /\ sessions' = (nextID :> "none") @@ sessions
            /\ nextID' = nextID + 1
            /\ call' = [call EXCEPT ![c] =
                   [IdleCall EXCEPT !.pc = "evaluate", !.tool = tool,
                                    !.args = args,
                                    !.sess = nextID, !.chain = "none",
                                    !.transient = TRUE]]
       ELSE /\ s \in DOMAIN sessions
            /\ call' = [call EXCEPT ![c] =
                   [IdleCall EXCEPT !.pc = "evaluate", !.tool = tool,
                                    !.args = args,
                                    !.sess = s, !.chain = sessions[s]]]
            /\ UNCHANGED <<sessions, nextID, ledger, wl, approval, readers, ctxDone, retry, pipe,
                   poll, emu, sends>>
    /\ UNCHANGED <<registry, policies, dailySpent, dailyReset, mu, now, sent,
                   admitted, ledger, wl, approval, readers, ctxDone, retry,
                   pipe, poll, emu, sends>>

\* Enforcer.Evaluate, lines 39-42: copy the list under the read lock.
EvaluateSnapshot(c) ==
    /\ call[c].pc = "evaluate"
    /\ call' = [call EXCEPT ![c].snapshot = policies, ![c].idx = 1,
                            ![c].pc = "check"]
    /\ UNCHANGED <<registry, policies, sessions, nextID, dailySpent, dailyReset,
                   mu, now, sent, admitted, ledger, wl,
                   approval, readers, ctxDone, retry, pipe, poll, emu,
                   sends>>

\* The call after policy p's Check returned nil: the loop moves on.
Passed(c, p) ==
    [call[c] EXCEPT !.pc = "check", !.idx = @ + 1,
                    !.consulted = Append(@, <<p, "pass">>)]

\* Faulty variant: the denial is recorded but Execute goes
\* on to the tool body.
DeniedIgnored(c, p) ==
    [call[c] EXCEPT !.pc = "invoke", !.eval = "deny", !.deniedBy = p,
                    !.consulted = Append(@, <<p, "deny">>)]

\* The call after policy p's Check returned an error: Evaluate returns it and
\* Execute returns "security policy denied".
Denied(c, p) ==
    [call[c] EXCEPT !.pc = "done", !.eval = "deny", !.result = "denied",
                    !.deniedBy = p,
                    !.consulted = Append(@, <<p, "deny">>)]

\* One iteration of Evaluate's loop: p.Check for the stateless policies, and
\* the part of LimitPolicy.Check and HITLPolicy.Check before they block.
PolicyCheck(c) ==
    /\ call[c].pc = "check"
    /\ call[c].idx <= Len(PolicyList(c))
    /\ LET p == CurrentPolicy(c)
           r == call[c]
           v == IF p = "readonly" THEN ReadOnlyCheck(r.tool)
                ELSE IF p = "whitelist" THEN WhitelistCheck(r.args)
                ELSE IF p = "hitl" THEN HITLPreCheck(r.tool, r.args)
                ELSE LimitPreCheck(p, r.tool, r.args)
       IN  /\ call' = [call EXCEPT ![c] =
                  IF v = "pass" THEN Passed(c, p)
                  ELSE IF v = "deny" THEN Denied(c, p)
                  ELSE IF v = "lock" THEN [r EXCEPT !.pc = "limit_lock"]
                  ELSE [r EXCEPT !.pc = "hitl_wait"]]
           /\ sessions' = IF v = "deny" THEN SessionsAfterReturn(c) ELSE sessions
    /\ UNCHANGED <<registry, policies, nextID, dailySpent, dailyReset, mu, now,
                   sent, admitted, ledger, wl, approval, readers, ctxDone,
                   retry, pipe, poll, emu, sends>>

\* Evaluate's loop is exhausted: it returns nil and Execute goes on to the tool.
EvaluateReturnNil(c) ==
    /\ call[c].pc = "check"
    /\ call[c].idx > Len(PolicyList(c))
    /\ call' = [call EXCEPT ![c].pc = "invoke", ![c].eval = "pass"]
    /\ UNCHANGED <<registry, policies, sessions, nextID, dailySpent, dailyReset,
                   mu, now, sent, admitted, ledger, wl,
                   approval, readers, ctxDone, retry, pipe, poll, emu,
                   sends>>

\* Faulty variant: the lock is never waited for.
MutexIgnored(p) == TRUE

\* ------------------------------------------------------------------ LimitPolicy
\* The history of one policy after Check passed amount amt for session s at
\* time t (line 104's commit, filed under the session and the instant).
Booked(l, s, t, amt) ==
    LET k == <<s, t>>
        old == IF k \in DOMAIN l THEN l[k] ELSE 0
    IN  (k :> (old + amt)) @@ l

\* p.mu.Lock() can be taken.
MutexFree(p) == mu[p] = {}

\* Faulty variant: a total equal to the ceiling is refused.
ExceedsDailyOrEqual(p, newSpent) == newSpent >= dailyLimit(p)

\* LimitPolicy.Check's comparison newSpent.Cmp(p.dailyLimit) > 0.
ExceedsDaily(p, newSpent) == newSpent > dailyLimit(p)

\* Faulty variant: the new total is stored before it is compared.
SpentAfterCheckEager(p, a, newSpent) == newSpent

\* The value LimitPolicy.Check leaves in dailySpent[agentID].
SpentAfterCheck(p, a, newSpent) ==
    IF ExceedsDaily(p, newSpent) THEN dailySpent[p][a] ELSE newSpent

\* LimitPolicy.Check, lines 87-99: take the lock, read the clock, reset an
\* expired or missing window, add the amount to the spend read.
LimitLock(c) ==
    /\ call[c].pc = "limit_lock"
    /\ LET p == CurrentPolicy(c)
           a == agentID(call[c].sess)
           reset == WindowExpired(p, a)
           spent == IF reset THEN 0 ELSE dailySpent[p][a]
       IN  /\ MutexFree(p)
           /\ mu' = [mu EXCEPT ![p] = @ \cup {c}]
           /\ dailySpent' = [dailySpent EXCEPT ![p] = (a :> spent) @@ @]
           /\ dailyReset' = IF reset THEN [dailyReset EXCEPT ![p] = (a :> now) @@ @]
                            ELSE dailyReset
           /\ admitted' = IF reset THEN [admitted EXCEPT ![p][a] = 0]
                          ELSE admitted
           /\ call' = [call EXCEPT ![c].pc = "limit_commit",
                                   ![c].newSpent = spent + call[c].args.amount]
    /\ UNCHANGED <<registry, policies, sessions, nextID, now, sent, ledger, wl,
                   approval, readers, ctxDone, retry, pipe, poll, emu,
                   sends>>

\* LimitPolicy.Check, lines 100-107: compare with the ceiling, deny or commit,
\* and release the lock on return.
LimitCommit(c) ==
    /\ call[c].pc = "limit_commit"
    /\ LET p == CurrentPolicy(c)
           a == agentID(call[c].sess)
           r == call[c]
           deny == ExceedsDaily(p, r.newSpent)
           after == SpentAfterCheck(p, a, r.newSpent)
       IN  /\ dailySpent' = [dailySpent EXCEPT ![p][a] = after]
           /\ admitted' = IF deny THEN admitted
                          ELSE [admitted EXCEPT ![p][a] = @ + r.args.amount]
           /\ ledger' = IF deny THEN ledger
                        ELSE [ledger EXCEPT ![p] = Booked(@, r.sess, now, r.args.amount)]
           /\ mu' = [mu EXCEPT ![p] = @ \ {c}]
           /\ call' = [call EXCEPT ![c] =
                  [(IF deny THEN Denied(c, p) ELSE Passed(c, p))
                      EXCEPT !.committed = @ + (after - dailySpent[p][a])]]
           /\ sessions' = IF deny THEN SessionsAfterReturn(c) ELSE sessions
    /\ UNCHANGED <<registry, policies, nextID, dailyReset, now, sent, wl,
                   approval, readers, ctxDone, retry, pipe, poll, emu,
                   sends>>

\* ------------------------------------------------------------------ HITLPolicy
\* What consoleApprove's select receives: a response, a read error, the timeout.
HITLResponses == {"yes", "no", "readerr", "timeout"}

\* HITLPolicy.consoleApprove: nil only for "y" / "yes".
Approved(resp) == resp = "yes"

\* HITLPolicy.consoleApprove returns.
HITLRespond(c, resp) ==
    /\ call[c].pc = "hitl_wait"
    /\ LET p == CurrentPolicy(c)
       IN  /\ call' = [call EXCEPT ![c] =
                  IF Approved(resp) THEN Passed(c, p) ELSE Denied(c, p)]
           /\ sessions' = IF Approved(resp) THEN sessions
                          ELSE SessionsAfterReturn(c)
    /\ UNCHANGED <<registry, policies, nextID, dailySpent, dailyReset, mu, now,
                   sent, admitted, ledger, wl, approval, readers, ctxDone,
                   retry, pipe, poll, emu, sends>>

\* ------------------------------------------------------------------ gateway and tools
\* EVMGateway.SendTransaction / DeployContract on a session's chain: "nowallet",
\* or the build failed before signing, or the signed transaction's broadcast
\* failed, or it succeeded.
GatewayOutcomes(chain) ==
    IF chain = "wallet" THEN {"buildfail", "sendfail", "ok"} ELSE {"nowallet"}

\* Whether the gateway signed (and tried to broadcast) in that outcome.
Signed(o) == o \in {"sendfail", "ok"}

\* The outcomes of a tool body: "ok", "fail", or the gateway's.
ToolOutcomes(r) ==
    IF r.tool = "transfer"
    THEN IF "to" \notin DOMAIN r.args \/ "amount" \notin DOMAIN r.args
            \/ r.chain = "none"
         THEN {"fail"}
         ELSE GatewayOutcomes(r.chain)
    ELSE IF r.tool = "deploy"
    THEN IF r.chain = "none" THEN {"fail"} ELSE {"fail"} \cup GatewayOutcomes(r.chain)
    ELSE IF r.tool = "balance"
    THEN IF r.chain = "none" THEN {"fail"} ELSE {"fail", "ok"}
    ELSE {"fail", "ok"}

\* Execute, lines 121-136: the tool body runs; its error is wrapped, its
\* result returned; the transient session is closed on return.
ToolInvoke(c, o) ==
    /\ call[c].pc = "invoke"
    /\ o \in ToolOutcomes(call[c])
    /\ call' = [call EXCEPT ![c].pc = "done", ![c].invoked = TRUE,
                            ![c].result = IF o = "ok" THEN "ok" ELSE "toolfailed"]
    /\ sent' = IF Signed(o)
               THEN sent \cup {[via |-> "execute", eval |-> call[c].eval]}
               ELSE sent
    /\ sessions' = SessionsAfterReturn(c)
    /\ UNCHANGED <<registry, policies, nextID, dailySpent, dailyReset, mu, now,
                   admitted, ledger, wl, approval, readers, ctxDone, retry,
                   pipe, poll, emu, sends>>

\* The caller takes Execute's result and is free to call again.
Return(c) ==
    /\ call[c].pc = "done"
    /\ call' = [call EXCEPT ![c] = IdleCall]
    /\ UNCHANGED <<registry, policies, sessions, nextID, dailySpent, dailyReset,
                   mu, now, sent, admitted, ledger, wl,
                   approval, readers, ctxDone, retry, pipe, poll, emu,
                   sends>>

\* Runtime.EVM(ctx) then Client.SendTransaction or Client.DeployContract, inside
\* Runtime.Run: the session's chain is called directly.
ClientSend(s, o) ==
    /\ s \in DOMAIN sessions
    /\ sessions[s] # "none"
    /\ o \in GatewayOutcomes(sessions[s])
    /\ sent' = IF Signed(o)
               THEN sent \cup {[via |-> "client", eval |-> "none"]}
               ELSE sent
    /\ UNCHANGED <<registry, policies, sessions, nextID, dailySpent, dailyReset,
                   mu, now, call, admitted, ledger, wl,
                   approval, readers, ctxDone, retry, pipe, poll, emu,
                   sends>>

\* The part of a policy's history that lies less than 24 hours before time t.
Trailing(l, t) ==
    [k \in {j \in DOMAIN l : t - j[2] < Window} |-> l[k]]

\* Time passes; the history keeps the trailing 24 hours.
Tick ==
    /\ now < MaxTime
    /\ now' = now + 1
    /\ ledger' = [p \in LimitObjs |-> Trailing(ledger[p], now + 1)]
    /\ UNCHANGED <<registry, policies, sessions, nextID, dailySpent, dailyReset,
                   mu, call, sent, admitted, wl,
                   approval, readers, ctxDone, retry, pipe, poll, emu,
                   sends>>

\* ------------------------------------------------------------------ specifications
\* One step of caller c's Execute call after its start.
Step(c) ==
    \/ EvaluateSnapshot(c)
    \/ PolicyCheck(c)
    \/ EvaluateReturnNil(c)
    \/ LimitLock(c)
    \/ LimitCommit(c)
    \/ \E resp \in HITLResponses : HITLRespond(c, resp)
    \/ \E o \in {"fail", "ok", "nowallet", "buildfail", "sendfail"} : ToolInvoke(c, o)
    \/ Return(c)

\* The engine with the runtime's policies added while one agent calls.
Next ==
    \/ \E chain \in {"wallet"} : CreateSession(chain)
    \/ \E id \in 1..MaxSessions : CloseSession(id)
    \/ \E p \in EnginePolicies : AddPolicy(p)
    \/ \E c \in EngineCallers, tool \in ToolNames, args \in EngineArgs,
          s \in {0} \cup DOMAIN sessions :
          ExecuteStart(c, tool, args, s)
    \/ \E c \in EngineCallers : Step(c)
    \/ \E s \in DOMAIN sessions, o \in {"nowallet", "buildfail", "sendfail", "ok"} :
          ClientSend(s, o)

Spec == Init /\ [][Next]_vars

\* One step of caller c's Execute call when the chain holds a LimitPolicy only.
LimitStep(c) ==
    \/ EvaluateSnapshot(c)
    \/ PolicyCheck(c)
    \/ EvaluateReturnNil(c)
    \/ LimitLock(c)
    \/ LimitCommit(c)
    \/ \E o \in {"fail"} : ToolInvoke(c, o)
    \/ Return(c)

\* Concurrent callers against one LimitPolicy, within one window.
NextLimit ==
    \/ \E c \in LimitCallers, tool \in LimitTools, args \in LimitArgs,
          s \in DOMAIN sessions :
          ExecuteStart(c, tool, args, s)
    \/ \E c \in LimitCallers : LimitStep(c)

SpecLimit == InitLimit /\ [][NextLimit]_vars

\* One caller against one LimitPolicy while time passes.
NextWindow ==
    \/ \E c \in EngineCallers, tool \in LimitTools, args \in LimitArgs,
          s \in DOMAIN sessions :
          ExecuteStart(c, tool, args, s)
    \/ \E c \in EngineCallers : LimitStep(c)
    \/ Tick

SpecWindow == InitLimit /\ [][NextWindow]_vars

\* Two sessions created by the host, one LimitPolicy: the callers of the two
\* sessions take turns.
InitSessions ==
    /\ InitCommon
    /\ registry = BuiltinTools \cup CustomTools
    /\ wl = NoCheck
    /\ policies \in {<<p>> : p \in LimitObjs}
    /\ sessions = [i \in 1..(MaxSessions + 1) |-> "none"]
    /\ nextID = MaxSessions + 2

\* The argument maps whose amount, if any, is not negative.
SpendArgs == {a \in LimitArgs : "amount" \in DOMAIN a => a.amount >= 0}

NextSessions ==
    \/ \E c \in EngineCallers, tool \in LimitTools, args \in SpendArgs,
          s \in DOMAIN sessions :
          ExecuteStart(c, tool, args, s)
    \/ \E c \in EngineCallers : LimitStep(c)

SpecSessions == InitSessions /\ [][NextSessions]_vars

\* ------------------------------------------------------------------ WhitelistPolicy alone
\* Any WhitelistPolicy and any evaluation context.
InitWhitelist ==
    /\ InitCommon
    /\ registry = BuiltinTools \cup CustomTools
    /\ policies = <<>>
    /\ sessions = [i \in {} |-> "none"]
    /\ nextID = 1
    /\ wl \in WhitelistInputs

\* p.Check(ctx, evalCtx) returns.
WhitelistApply ==
    /\ wl.verdict = "none"
    /\ wl' = [wl EXCEPT !.verdict = WhitelistPolicyCheck(wl.allowed, wl.blocked,
                                                         wl.kind, wl.to)]
    /\ UNCHANGED <<registry, policies, sessions, nextID, dailySpent, dailyReset,
                   mu, now, call, sent, admitted, ledger,
                   approval, readers, ctxDone, retry, pipe, poll, emu,
                   sends>>

NextWhitelist == WhitelistApply

SpecWhitelist == InitWhitelist /\ [][NextWhitelist]_vars

\* ------------------------------------------------------------------ HITLPolicy.consoleApprove in steps
\* The lines an operator may type (before the newline).
Lines == {"y", " YES", "n"}

\* strings.TrimSpace on those lines.
TrimSpace(s) == IF s = " YES" THEN "YES" ELSE s

\* strings.ToLower on the trimmed lines.
ToLower(s) == IF s = "YES" THEN "yes" ELSE s

\* Faulty variant: every non-empty answer approves.
AffirmativeNonEmpty(response) == response # ""

\* consoleApprove's test of the response: "y" or "yes".
Affirmative(response) == response \in {"y", "yes"}

\* consoleApprove, lines 78-97: prompt, then start the goroutine that reads
\* a line from os.Stdin.
ConsoleApprove(c) ==
    /\ call[c].pc = "hitl_wait"
    /\ approval[c].phase # "waiting"
    /\ readers' = Append(readers, [st |-> "reading", val |-> ""])
    /\ approval' = [approval EXCEPT ![c] =
           [phase |-> "waiting", reader |-> Len(readers) + 1,
            outcome |-> "none", response |-> "", ctxDone |-> FALSE]]
    /\ UNCHANGED <<registry, policies, sessions, nextID, dailySpent, dailyReset,
                   mu, now, call, sent, admitted, ledger, wl, ctxDone,
                   retry, pipe, poll, emu, sends>>

\* The goroutine's reader.ReadString returns a line: it goes on to send the
\* trimmed line on ch, where it blocks until somebody receives.
ReaderRead(g, line) ==
    /\ g \in 1..Len(readers)
    /\ readers[g].st = "reading"
    /\ readers' = [readers EXCEPT ![g] = [st |-> "sending", val |-> TrimSpace(line)]]
    /\ UNCHANGED <<registry, policies, sessions, nextID, dailySpent, dailyReset,
                   mu, now, call, sent, admitted, ledger, wl, approval, ctxDone,
                   retry, pipe, poll, emu, sends>>

\* The goroutine's reader.ReadString returns an error: it goes on to send it
\* on errCh, where it blocks until somebody receives.
ReaderReadErr(g) ==
    /\ g \in 1..Len(readers)
    /\ readers[g].st = "reading"
    /\ readers' = [readers EXCEPT ![g] = [st |-> "errsending", val |-> ""]]
    /\ UNCHANGED <<registry, policies, sessions, nextID, dailySpent, dailyReset,
                   mu, now, call, sent, admitted, ledger, wl, approval, ctxDone,
                   retry, pipe, poll, emu, sends>>

\* consoleApprove's activation once its select has returned with outcome o.
Returned(c, o, response) ==
    [approval[c] EXCEPT !.phase = "returned", !.outcome = o,
                        !.response = response, !.ctxDone = ctxDone[c]]

\* select, case response := <-ch (lines 104-111): the goroutine's send
\* completes and it exits; an affirmative answer passes, any other denies.
SelectRecv(c) ==
    /\ call[c].pc = "hitl_wait"
    /\ approval[c].phase = "waiting"
    /\ LET g == approval[c].reader
           p == CurrentPolicy(c)
           response == ToLower(readers[g].val)
           ok == Affirmative(response)
       IN  /\ readers[g].st = "sending"
           /\ readers' = [readers EXCEPT ![g].st = "exited"]
           /\ call' = [call EXCEPT ![c] = IF ok THEN Passed(c, p) ELSE Denied(c, p)]
           /\ sessions' = IF ok THEN sessions ELSE SessionsAfterReturn(c)
           /\ approval' = [approval EXCEPT ![c] =
                  Returned(c, IF ok THEN "approved" ELSE "rejected", response)]
    /\ UNCHANGED <<registry, policies, nextID, dailySpent, dailyReset, mu, now,
                   sent, admitted, ledger, wl, ctxDone, retry, pipe, poll,
                   emu, sends>>

\* select, case err := <-errCh (lines 102-103).
SelectErr(c) ==
    /\ call[c].pc = "hitl_wait"
    /\ approval[c].phase = "waiting"
    /\ LET g == approval[c].reader
           p == CurrentPolicy(c)
       IN  /\ readers[g].st = "errsending"
           /\ readers' = [readers EXCEPT ![g].st = "exited"]
           /\ call' = [call EXCEPT ![c] = Denied(c, p)]
           /\ sessions' = SessionsAfterReturn(c)
           /\ approval' = [approval EXCEPT ![c] = Returned(c, "readerr", "")]
    /\ UNCHANGED <<registry, policies, nextID, dailySpent, dailyReset, mu, now,
                   sent, admitted, ledger, wl, ctxDone, retry, pipe, poll,
                   emu, sends>>

\* Faulty variant: the select has no timeout case.
TimerNever(c) == FALSE

\* Whether select's case <-time.After(p.timeout) can be taken.
TimerFires(c) == approval[c].phase = "waiting"

\* select, case <-time.After(p.timeout) (lines 100-101): consoleApprove
\* returns; the goroutine is left where it is.
SelectTimeout(c) ==
    /\ call[c].pc = "hitl_wait"
    /\ TimerFires(c)
    /\ call' = [call EXCEPT ![c] = Denied(c, CurrentPolicy(c))]
    /\ sessions' = SessionsAfterReturn(c)
    /\ approval' = [approval EXCEPT ![c] = Returned(c, "timeout", "")]
    /\ UNCHANGED <<registry, policies, nextID, dailySpent, dailyReset, mu, now,
                   sent, admitted, ledger, wl, readers, ctxDone, retry,
                   pipe, poll, emu, sends>>

\* The caller's context is cancelled, or reaches its deadline, while the
\* policy waits.
CtxCancel(c) ==
    /\ call[c].pc = "hitl_wait"
    /\ ~ctxDone[c]
    /\ ctxDone' = [ctxDone EXCEPT ![c] = TRUE]
    /\ UNCHANGED <<registry, policies, sessions, nextID, dailySpent, dailyReset,
                   mu, now, call, sent, admitted, ledger, wl, approval, readers,
                   retry, pipe, poll, emu, sends>>

\* The caller makes a fresh context for its next Execute.
CtxRenew(c) ==
    /\ call[c].pc = "idle"
    /\ ctxDone[c]
    /\ ctxDone' = [ctxDone EXCEPT ![c] = FALSE]
    /\ UNCHANGED <<registry, policies, sessions, nextID, dailySpent, dailyReset,
                   mu, now, call, sent, admitted, ledger, wl, approval, readers,
                   retry, pipe, poll, emu, sends>>

\* A host that registered every write tool, one session, and a chain holding
\* the HITLPolicy or one of the LimitPolicies the runtime builds.
InitHITL ==
    /\ InitCommon
    /\ registry = writeTools \cup {"balance"}
    /\ wl = NoCheck
    /\ policies \in {<<"hitl">>, <<"limitTx">>, <<"limitDaily">>}
    /\ sessions = (1 :> "none")
    /\ nextID = 2

\* Calls that carry an amount: at the HITL threshold, above the threshold and
\* the per-transaction ceiling, above the daily ceiling.
HITLArgs ==
    {[amount |-> a, to |-> "A"] : a \in {HITLThreshold, MaxTxValue + 1, DailyLimit + 1}}

\* One step of caller c's Execute call with consoleApprove in steps.
HITLStep(c) ==
    \/ EvaluateSnapshot(c)
    \/ PolicyCheck(c)
    \/ EvaluateReturnNil(c)
    \/ LimitLock(c)
    \/ LimitCommit(c)
    \/ ConsoleApprove(c)
    \/ SelectRecv(c)
    \/ SelectErr(c)
    \/ SelectTimeout(c)
    \/ \E o \in {"fail"} : ToolInvoke(c, o)
    \/ Return(c)

NextHITL ==
    \/ \E c \in EngineCallers, tool \in writeTools, args \in HITLArgs,
          s \in DOMAIN sessions :
          /\ Len(readers) < MaxApprovals
          /\ ExecuteStart(c, tool, args, s)
    \/ \E c \in EngineCallers : HITLStep(c)
    \/ \E g \in 1..MaxApprovals, line \in Lines : ReaderRead(g, line)
    \/ \E g \in 1..MaxApprovals : ReaderReadErr(g)
    \/ \E c \in EngineCallers : CtxCancel(c)
    \/ \E c \in EngineCallers : CtxRenew(c)

\* The main goroutine goes on to start the reader, and the timer of
\* time.After(p.timeout) fires.
SpecHITL ==
    /\ InitHITL
    /\ [][NextHITL]_vars
    /\ WF_vars(\E c \in EngineCallers : ConsoleApprove(c))
    /\ WF_vars(\E c \in EngineCallers : SelectTimeout(c))

\* ------------------------------------------------------------------ Client.withRetry
\* The errors an RPC call can fail with.
RPCErrors == {"e1", "e2"}

\* The operations Client passes to withRetry.
WrappedOps == {"BalanceAt", "CallContract", "ChainID", "BlockNumber", "EstimateGas",
               "PendingNonceAt", "SuggestGasPrice", "SuggestGasTipCap"}

\* RetryConfig values after NewClient's normalisation (every field positive),
\* the factor in halves: 1 is 0.5, 2 is 1.0, 3 is 1.5, 4 is 2.0.
RetryConfigs ==
    [MaxAttempts : 1..MaxAttempts, InitialBackoff : 1..MaxBackoffCfg,
     MaxBackoff : 1..MaxBackoffCfg, BackoffFactor : 1..4]

\* A client built by NewClient, on which no call was made yet.
InitRetry ==
    /\ InitEngine
    /\ sends = IdleSends
    /\ registry = BuiltinTools \cup CustomTools
    /\ wl = NoCheck
    /\ policies = <<>>
    /\ sessions = [i \in {} |-> "none"]
    /\ nextID = 1
    /\ retry \in {IdleRetry(cfg) : cfg \in RetryConfigs}
    /\ pipe = IdlePipe(FALSE)
    /\ poll = IdlePoll

\* withRetry's entry up to the first call of fn: lastErr unset, backoff at
\* InitialBackoff, attempt 1; the loop is left at once when 1 > MaxAttempts.
\* The context passed in may be done already.
Entered(operation, done) ==
    [IdleRetry(retry.cfg) EXCEPT
       !.op = operation,
       !.attempt = 1,
       !.backoff = retry.cfg.InitialBackoff,
       !.ctxDone = done,
       !.cancelledAt = IF done THEN "before" ELSE "none",
       !.pc = IF 1 <= retry.cfg.MaxAttempts THEN "call" ELSE "done",
       !.result = IF 1 <= retry.cfg.MaxAttempts THEN "none" ELSE "exhausted",
       !.reported = IF 1 <= retry.cfg.MaxAttempts THEN 0 ELSE retry.cfg.MaxAttempts]

\* A method of Client calls withRetry.
WithRetry(operation, done) ==
    /\ retry.pc \in {"idle", "done"}
    /\ retry' = Entered(operation, done)
    /\ UNCHANGED <<registry, policies, sessions, nextID, dailySpent, dailyReset,
                   mu, now, call, sent, admitted, ledger, wl, approval, readers,
                   ctxDone, pipe, poll, emu, sends>>

\* The faulty break test: one attempt late.
LastAttemptLate(r) == r.attempt = r.cfg.MaxAttempts + 1

\* if attempt == c.retry.MaxAttempts { break }
LastAttempt(r) == r.attempt = r.cfg.MaxAttempts

\* One pass of the loop body from fn() to the select: a success returns, the
\* last attempt's failure breaks out to the final error, any other failure
\* starts the timer.
Attempt(o) ==
    /\ retry.pc = "call"
    /\ LET r == [retry EXCEPT !.calls = @ + 1, !.outcomes = Append(@, o)] IN
       retry' =
         IF o = "ok" THEN [r EXCEPT !.pc = "done", !.result = "ok"]
         ELSE IF LastAttempt(r)
              THEN [r EXCEPT !.pc = "done", !.lastErr = o, !.result = "exhausted",
                             !.wrapped = o, !.reported = r.cfg.MaxAttempts]
              ELSE [r EXCEPT !.pc = "wait", !.lastErr = o, !.waits = @ + 1,
                             !.slept = Append(@, r.backoff)]
    /\ UNCHANGED <<registry, policies, sessions, nextID, dailySpent, dailyReset,
                   mu, now, call, sent, admitted, ledger, wl, approval, readers,
                   ctxDone, pipe, poll, emu, sends>>

\* The smaller of two durations.
Min(a, b) == IF a < b THEN a ELSE b

\* backoff = time.Duration(float64(backoff) * factor), capped at MaxBackoff.
NextBackoff(cfg, backoff) == Min((backoff * cfg.BackoffFactor) \div 2, cfg.MaxBackoff)

\* The faulty select: the timer may win after the context ended in the wait.
TimerMayWinAlways(r) == TRUE

\* Whether <-timer.C can be the case the select takes: always while the
\* context is live; when the context was done before the select was entered,
\* only if the timer has expired by then too (the choice among ready cases is
\* random); never once the parked goroutine was woken by ctx.Done().
TimerMayWin(r) == ~r.ctxDone \/ r.cancelledAt # "wait"

\* case <-timer.C: the backoff grows, attempt++ and the loop test.
TimerC ==
    /\ retry.pc = "wait"
    /\ TimerMayWin(retry)
    /\ LET more == retry.attempt + 1 <= retry.cfg.MaxAttempts IN
       retry' = [retry EXCEPT
                   !.backoff = NextBackoff(retry.cfg, @),
                   !.attempt = @ + 1,
                   !.pc = IF more THEN "call" ELSE "done",
                   !.result = IF more THEN "none" ELSE "exhausted",
                   !.wrapped = IF more THEN @ ELSE retry.lastErr,
                   !.reported = IF more THEN @ ELSE retry.cfg.MaxAttempts]
    /\ UNCHANGED <<registry, policies, sessions, nextID, dailySpent, dailyReset,
                   mu, now, call, sent, admitted, ledger, wl, approval, readers,
                   ctxDone, pipe, poll, emu, sends>>

\* case <-ctx.Done(): timer.Stop() and return ctx.Err().
CtxDoneCase ==
    /\ retry.pc = "wait"
    /\ retry.ctxDone
    /\ retry' = [retry EXCEPT !.pc = "done", !.result = "cancelled"]
    /\ UNCHANGED <<registry, policies, sessions, nextID, dailySpent, dailyReset,
                   mu, now, call, sent, admitted, ledger, wl, approval, readers,
                   ctxDone, pipe, poll, emu, sends>>

\* The caller cancels the context, or its deadline passes, while withRetry
\* runs.
RetryCtxEnds ==
    /\ retry.pc \in {"call", "wait"}
    /\ ~retry.ctxDone
    /\ retry' = [retry EXCEPT !.ctxDone = TRUE, !.cancelledAt = retry.pc]
    /\ UNCHANGED <<registry, policies, sessions, nextID, dailySpent, dailyReset,
                   mu, now, call, sent, admitted, ledger, wl, approval, readers,
                   ctxDone, pipe, poll, emu, sends>>

NextRetry ==
    \/ \E operation \in {"ChainID"}, done \in BOOLEAN : WithRetry(operation, done)
    \/ \E o \in {"ok"} \cup RPCErrors : Attempt(o)
    \/ TimerC
    \/ CtxDoneCase
    \/ RetryCtxEnds

SpecRetry == InitRetry /\ [][NextRetry]_vars

\* ------------------------------------------------------------------ NewClient, NewClientFromEthClient
\* The RetryConfig values a caller can pass: any field may be zero and
\* MaxAttempts negative.
RawRetryConfigs ==
    [MaxAttempts : (-1)..MaxAttempts, InitialBackoff : 0..MaxBackoffCfg,
     MaxBackoff : 0..MaxBackoffCfg, BackoffFactor : {0, 2, 4}]

\* The *RetryConfig argument: nil or a pointer to a value.
RetryArgs == {{}} \cup {{cfg} : cfg \in RawRetryConfigs}

\* retry == nil selects DefaultRetryConfig.
OrDefault(arg) == IF arg = {} THEN DefaultRetryConfig ELSE CHOOSE cfg \in arg : TRUE

\* NewClient's RetryConfig: every field that is not positive gets its
\* default (1 attempt, 100ms, 2s, factor 2.0).
NewClient(arg) ==
    LET cfg == OrDefault(arg) IN
    [MaxAttempts |-> IF cfg.MaxAttempts <= 0 THEN 1 ELSE cfg.MaxAttempts,
     InitialBackoff |-> IF cfg.InitialBackoff <= 0 THEN 1 ELSE cfg.InitialBackoff,
     MaxBackoff |-> IF cfg.MaxBackoff <= 0 THEN 20 ELSE cfg.MaxBackoff,
     BackoffFactor |-> IF cfg.BackoffFactor <= 0 THEN 4 ELSE cfg.BackoffFactor]

\* NewClientFromEthClient's RetryConfig: the value passed, as it is.
NewClientFromEthClient(arg) == OrDefault(arg)

\* A client built by either constructor, on which no call was made yet.
InitClients ==
    /\ InitEngine
    /\ sends = IdleSends
    /\ registry = BuiltinTools \cup CustomTools
    /\ wl = NoCheck
    /\ policies = <<>>
    /\ sessions = [i \in {} |-> "none"]
    /\ nextID = 1
    /\ retry \in {IdleRetry(NewClient(arg)) : arg \in RetryArgs}
                 \cup {IdleRetry(NewClientFromEthClient(arg)) : arg \in RetryArgs}
    /\ pipe = IdlePipe(FALSE)
    /\ poll = IdlePoll

NextClients ==
    \/ \E operation \in {"ChainID"} : WithRetry(operation, FALSE)
    \/ \E o \in {"ok"} \cup RPCErrors : Attempt(o)
    \/ TimerC

SpecClients == InitClients /\ [][NextClients]_vars

\* ------------------------------------------------------------------ EVMGateway write path
\* blockchain.Transaction values handed to SendTransaction: To nil, a hex
\* address or another string.
TxInputs ==
    [To : {"nil", "hex", "bad"}, Gas : {0, 1}, GasPrice : Opt, GasFeeCap : Opt,
     GasTipCap : Opt, Nonce : Opt]

\* TxOpts values handed to DeployContract.
DeployOpts ==
    [GasLimit : {0, 1}, GasPrice : Opt, GasFeeCap : Opt, GasTipCap : Opt,
     Nonce : Opt, DynamicFee : BOOLEAN]

\* SendTransaction's conversion of tx to builder options.
OptsOf(tx) ==
    [GasLimit |-> tx.Gas, GasPrice |-> tx.GasPrice, GasFeeCap |-> tx.GasFeeCap,
     GasTipCap |-> tx.GasTipCap, Nonce |-> tx.Nonce,
     DynamicFee |-> (tx.GasFeeCap # {} \/ tx.GasTipCap # {})]

\* A gateway with or without a wallet over a client of any retry
\* configuration with fixed backoffs.
InitPipeline ==
    /\ InitEngine
    /\ sends = IdleSends
    /\ registry = BuiltinTools \cup CustomTools
    /\ wl = NoCheck
    /\ policies = <<>>
    /\ sessions = [i \in {} |-> "none"]
    /\ nextID = 1
    /\ retry \in {IdleRetry([DefaultRetryConfig EXCEPT !.MaxAttempts = n]) :
                     n \in 1..MaxAttempts}
    /\ pipe \in {IdlePipe(w) : w \in BOOLEAN}
    /\ poll = IdlePoll

\* The call returns err, the failing stage recorded.
Failed(p, stage) == [p EXCEPT !.pc = "done", !.result = "error", !.failed = stage]

\* The call goes on to a method of Client that runs under withRetry.
Wrapped(p, operation) == [p EXCEPT !.pc = "rpc", !.op = operation]

\* The faulty legacy builder: the gas price is left as the options gave it.
LegacyStagePriceAsGiven(p) ==
    IF p.gasLimit = 0 THEN Wrapped(p, "EstimateGas")
    ELSE [p EXCEPT !.pc = "sign",
                   !.tx = [NoTx EXCEPT !.type = "legacy", !.nonce = p.nonce,
                                       !.gas = p.gasLimit, !.gasPrice = p.gasPrice]]

\* buildAndSignLegacy after its locals were read: estimate the gas when the
\* limit is 0, ask for a price when none is given, then types.NewTx(LegacyTx).
LegacyStage(p) ==
    IF p.gasLimit = 0 THEN Wrapped(p, "EstimateGas")
    ELSE IF p.gasPrice = {} THEN Wrapped(p, "SuggestGasPrice")
    ELSE [p EXCEPT !.pc = "sign",
                   !.tx = [NoTx EXCEPT !.type = "legacy", !.nonce = p.nonce,
                                       !.gas = p.gasLimit, !.gasPrice = p.gasPrice]]

\* buildAndSignLegacy's entry.
Legacy(p) ==
    LegacyStage([p EXCEPT !.kind = "legacy", !.gasPrice = p.opts.GasPrice,
                          !.gasLimit = p.opts.GasLimit])

\* (base fee * 2) + tip
FeeCap(baseFee, tip) == baseFee * 2 + tip

\* buildAndSignDynamicFee after the header: estimate the gas when the limit
\* is 0, ask for a tip when none is given, derive the fee cap when none is
\* given, then types.NewTx(DynamicFeeTx).
DynamicStage(p) ==
    IF p.gasLimit = 0 THEN Wrapped(p, "EstimateGas")
    ELSE IF p.gasTipCap = {} THEN Wrapped(p, "SuggestGasTipCap")
    ELSE LET cap == IF p.gasFeeCap = {}
                    THEN {FeeCap(b, t) : b \in p.baseFee, t \in p.gasTipCap}
                    ELSE p.gasFeeCap
         IN [p EXCEPT !.pc = "sign", !.gasFeeCap = cap,
                      !.tx = [NoTx EXCEPT !.type = "dynamic", !.nonce = p.nonce,
                                          !.gas = p.gasLimit, !.gasFeeCap = cap,
                                          !.gasTipCap = p.gasTipCap]]

\* buildAndSignDynamicFee's entry: its locals, then the header lookup made
\* on the raw ethclient.
Dynamic(p) ==
    [p EXCEPT !.kind = "dynamic", !.gasFeeCap = p.opts.GasFeeCap,
              !.gasTipCap = p.opts.GasTipCap, !.gasLimit = p.opts.GasLimit,
              !.pc = "header"]

\* Build*: with the nonce in hand, the choice of builder.
AfterNonce(p) == IF p.opts.DynamicFee THEN Dynamic(p) ELSE Legacy(p)

\* resolveNonce: the nonce of the options, or PendingNonceAt.
ResolveNonce(p) ==
    IF p.opts.Nonce # {} THEN AfterNonce([p EXCEPT !.nonce = p.opts.Nonce])
    ELSE Wrapped(p, "PendingNonceAt")

\* After NewTxBuilder: BuildContractCall rejects a non-hex address;
\* BuildDeploy and a hex address go on to the nonce.
Build(p) == IF p.to = "bad" THEN Failed(p, "address") ELSE ResolveNonce(p)

\* The call in p goes on, starting withRetry when it stopped at a wrapped
\* method.
Goes(p) ==
    /\ pipe' = p
    /\ retry' = IF p.pc = "rpc" THEN Entered(p.op, retry.ctxDone) ELSE retry

\* SendTransaction / DeployContract up to NewTxBuilder's client.ChainID(ctx):
\* without a wallet the call fails at once.
Enter(entry, to, opts) ==
    /\ pipe.pc = "idle"
    /\ retry.pc = "idle"
    /\ LET p == [pipe EXCEPT !.entry = entry, !.to = to, !.opts = opts] IN
       Goes(IF ~pipe.wallet THEN Failed(p, "wallet") ELSE Wrapped(p, "ChainID"))
    /\ UNCHANGED <<registry, policies, sessions, nextID, dailySpent, dailyReset,
                   mu, now, call, sent, admitted, ledger, wl, approval, readers,
                   ctxDone, poll, emu, sends>>

SendTransaction(tx) == Enter("SendTransaction", tx.To, OptsOf(tx))

DeployContract(opts) == Enter("DeployContract", "nil", opts)

\* The wrapped method returned: its error ends the call, its result fills
\* in the field it was fetched for and the builder goes on.
WrappedReturns ==
    /\ pipe.pc = "rpc"
    /\ retry.pc = "done"
    /\ retry.op = pipe.op
    /\ Goes(IF retry.result # "ok"
            THEN Failed([pipe EXCEPT !.faults = @ \cup {pipe.op}], pipe.op)
            ELSE IF pipe.op = "ChainID" THEN Build(pipe)
            ELSE IF pipe.op = "PendingNonceAt"
                 THEN AfterNonce([pipe EXCEPT !.nonce = {1}])
            ELSE IF pipe.op = "EstimateGas"
                 THEN IF pipe.kind = "dynamic"
                      THEN DynamicStage([pipe EXCEPT !.gasLimit = 1])
                      ELSE LegacyStage([pipe EXCEPT !.gasLimit = 1])
            ELSE IF pipe.op = "SuggestGasPrice"
                 THEN LegacyStage([pipe EXCEPT !.gasPrice = {1}])
            ELSE DynamicStage([pipe EXCEPT !.gasTipCap = {1}]))
    /\ UNCHANGED <<registry, policies, sessions, nextID, dailySpent, dailyReset,
                   mu, now, call, sent, admitted, ledger, wl, approval, readers,
                   ctxDone, poll, emu, sends>>

\* b.client.ec.HeaderByNumber(ctx, nil): one call on the raw client; an
\* error ends the call, a header without base fee falls back to the legacy
\* builder.
HeaderByNumber(o) ==
    /\ pipe.pc = "header"
    /\ LET p == [pipe EXCEPT !.direct = @ \cup {"HeaderByNumber"}] IN
       Goes(IF o = "err"
            THEN Failed([p EXCEPT !.faults = @ \cup {"HeaderByNumber"}],
                        "HeaderByNumber")
            ELSE IF o = "nobasefee" THEN Legacy(p)
            ELSE DynamicStage([p EXCEPT !.baseFee = {1}]))
    /\ UNCHANGED <<registry, policies, sessions, nextID, dailySpent, dailyReset,
                   mu, now, call, sent, admitted, ledger, wl, approval, readers,
                   ctxDone, poll, emu, sends>>

\* What signTransaction meets: whether wallet.Sign failed, the length and
\* the last byte of the signature it returned, and whether WithSignature
\* takes the signature handed to it.
SignOutcomes ==
    [err : BOOLEAN,
     length : {SignatureLength - 1, SignatureLength, SignatureLength + 1},
     last : {0, 1, RecoveryOffset, RecoveryOffset + 1, RecoveryOffset + 2},
     accepted : BOOLEAN]

\* The faulty signer: the length of the signature is not looked at.
SignatureUsableAnyLength(o) == ~o.err /\ o.accepted

\* signTransaction accepts what wallet.Sign returned: no error, 65 bytes,
\* and values WithSignature takes.
SignatureUsable(o) == ~o.err /\ o.length = SignatureLength /\ o.accepted

\* The faulty adjustment: the recovery byte is attached as the wallet gave it.
RecoveryAsGiven(v) == v

\* v := signature[64]; if v >= 27 { v -= 27 }
Recovery(v) == IF v >= RecoveryOffset THEN v - RecoveryOffset ELSE v

\* signTransaction: wallet.Sign, the length test, the adjustment of the last
\* byte, WithSignature; then the gateway is about to broadcast. sig keeps
\* what the wallet returned.
SignTransaction(o) ==
    /\ pipe.pc = "sign"
    /\ LET good == ~o.err /\ o.length = SignatureLength /\ o.accepted
           p == [pipe EXCEPT !.sig = IF o.err THEN {} ELSE {o},
                             !.faults = IF good THEN @ ELSE @ \cup {"sign"}]
       IN  pipe' = IF SignatureUsable(o)
                   THEN [p EXCEPT !.pc = "broadcast", !.tx.signed = good,
                                  !.tx.v = {Recovery(o.last)}]
                   ELSE Failed(p, "sign")
    /\ UNCHANGED <<registry, policies, sessions, nextID, dailySpent, dailyReset,
                   mu, now, call, sent, admitted, ledger, wl, approval, readers,
                   ctxDone, retry, poll, emu, sends>>

\* g.client.ec.SendTransaction(ctx, signedTx): one call on the raw client.
Broadcast(o) ==
    /\ pipe.pc = "broadcast"
    /\ pipe' = [pipe EXCEPT !.pc = "done",
                            !.direct = @ \cup {"SendTransaction"},
                            !.broadcasts = @ + 1,
                            !.handed = @ \cup {pipe.tx},
                            !.result = IF o = "ok" THEN "ok" ELSE "error",
                            !.failed = IF o = "ok" THEN Nil ELSE "send"]
    /\ UNCHANGED <<registry, policies, sessions, nextID, dailySpent, dailyReset,
                   mu, now, call, sent, admitted, ledger, wl, approval, readers,
                   ctxDone, retry, poll, emu, sends>>

NextPipeline ==
    \/ \E tx \in TxInputs : SendTransaction(tx)
    \/ \E opts \in DeployOpts : DeployContract(opts)
    \/ WrappedReturns
    \/ \E o \in {"err", "nobasefee", "basefee"} : HeaderByNumber(o)
    \/ \E o \in SignOutcomes : SignTransaction(o)
    \/ \E o \in {"ok", "err"} : Broadcast(o)
    \/ \E o \in {"ok", "e1"} : Attempt(o)
    \/ TimerC
    \/ CtxDoneCase
    \/ RetryCtxEnds

SpecPipeline == InitPipeline /\ [][NextPipeline]_vars

\* ------------------------------------------------------------------ receipt polling
Variants == {"WaitForReceipt", "WaitForReceiptWithBackoff"}

InitPoll ==
    /\ InitEngine
    /\ sends = IdleSends
    /\ registry = BuiltinTools \cup CustomTools
    /\ wl = NoCheck
    /\ policies = <<>>
    /\ sessions = [i \in {} |-> "none"]
    /\ nextID = 1
    /\ retry = IdleRetry(DefaultRetryConfig)
    /\ pipe = IdlePipe(FALSE)
    /\ poll = IdlePoll

\* The call's entry: the ticker variant parks in its select, the backoff
\* variant is at the top of its loop. The context may be done already.
WaitForReceipt(variant, confirmations, done) ==
    /\ poll.pc = "idle"
    /\ poll' = [poll EXCEPT
                  !.variant = variant,
                  !.confirmations = confirmations,
                  !.ctxDone = done,
                  !.cancelledAt = IF done THEN "before" ELSE "none",
                  !.pc = IF variant = "WaitForReceipt" THEN "select" ELSE "top"]
    /\ UNCHANGED <<registry, policies, sessions, nextID, dailySpent, dailyReset,
                   mu, now, call, sent, admitted, ledger, wl, approval, readers,
                   ctxDone, retry, pipe, emu, sends>>

\* The chain grows by a block, which may hold the transaction.
NewBlock(holdsTx) ==
    /\ poll.height < MaxHeight
    /\ poll' = [poll EXCEPT !.height = @ + 1,
                            !.mined = IF holdsTx /\ @ = {} THEN {poll.height + 1}
                                      ELSE @]
    /\ UNCHANGED <<registry, policies, sessions, nextID, dailySpent, dailyReset,
                   mu, now, call, sent, admitted, ledger, wl, approval, readers,
                   ctxDone, retry, pipe, emu, sends>>

\* Where the loop waits: the select of the ticker variant, time.Sleep of the
\* backoff variant.
WaitPoint(p) == IF p.variant = "WaitForReceipt" THEN "select" ELSE "sleep"

\* c.ec.TransactionReceipt: an error (not found, or the network) sends the
\* loop back to its wait; a receipt is kept and the height is asked next.
TransactionReceipt(found) ==
    /\ poll.pc = "query"
    /\ found => poll.mined # {}
    /\ poll' = IF found
               THEN [poll EXCEPT !.receipt = poll.mined, !.pc = "height"]
               ELSE [poll EXCEPT !.pc = WaitPoint(poll)]
    /\ UNCHANGED <<registry, policies, sessions, nextID, dailySpent, dailyReset,
                   mu, now, call, sent, admitted, ledger, wl, approval, readers,
                   ctxDone, retry, pipe, emu, sends>>

\* currentBlock - receipt.BlockNumber.Uint64() in unsigned arithmetic.
Blocks(currentBlock, receiptBlock) == (currentBlock - receiptBlock) % UintModulus

\* c.ec.BlockNumber answered h (the height of the node that served the
\* request, which may lag behind the chain): return the receipt when blocks
\* reaches the confirmations, else back to the wait.
BlockNumber(h) ==
    /\ poll.pc = "height"
    /\ LET blocks == CHOOSE d \in {Blocks(h, b) : b \in poll.receipt} : TRUE IN
       poll' = IF blocks >= poll.confirmations
               THEN [poll EXCEPT !.pc = "done", !.result = "receipt",
                                 !.asked = {h}, !.blocks = blocks]
               ELSE [poll EXCEPT !.pc = WaitPoint(poll), !.asked = {h}]
    /\ UNCHANGED <<registry, policies, sessions, nextID, dailySpent, dailyReset,
                   mu, now, call, sent, admitted, ledger, wl, approval, readers,
                   ctxDone, retry, pipe, emu, sends>>

\* c.ec.BlockNumber failed: back to the wait.
BlockNumberErr ==
    /\ poll.pc = "height"
    /\ poll' = [poll EXCEPT !.pc = WaitPoint(poll)]
    /\ UNCHANGED <<registry, policies, sessions, nextID, dailySpent, dailyReset,
                   mu, now, call, sent, admitted, ledger, wl, approval, readers,
                   ctxDone, retry, pipe, emu, sends>>

\* WaitForReceipt, case <-ticker.C: possible while the context is live, and,
\* by the random choice among ready cases, when the context was done before
\* the select was entered; not once the parked goroutine was woken by
\* ctx.Done(). The receipt query follows.
TickerC ==
    /\ poll.pc = "select"
    /\ ~poll.ctxDone \/ poll.cancelledAt # "wait"
    /\ poll.queries < MaxQueries
    /\ poll' = [poll EXCEPT !.pc = "query", !.queries = @ + 1]
    /\ UNCHANGED <<registry, policies, sessions, nextID, dailySpent, dailyReset,
                   mu, now, call, sent, admitted, ledger, wl, approval, readers,
                   ctxDone, retry, pipe, emu, sends>>

\* WaitForReceipt, case <-ctx.Done().
PollCtxDoneCase ==
    /\ poll.pc = "select"
    /\ poll.ctxDone
    /\ poll' = [poll EXCEPT !.pc = "done", !.result = "cancelled"]
    /\ UNCHANGED <<registry, policies, sessions, nextID, dailySpent, dailyReset,
                   mu, now, call, sent, admitted, ledger, wl, approval, readers,
                   ctxDone, retry, pipe, emu, sends>>

\* WaitForReceiptWithBackoff, top of the loop: the non-blocking test of
\* ctx.Done(), then the receipt query.
LoopTop ==
    /\ poll.pc = "top"
    /\ poll.ctxDone \/ poll.queries < MaxQueries
    /\ poll' = IF poll.ctxDone
               THEN [poll EXCEPT !.pc = "done", !.result = "cancelled"]
               ELSE [poll EXCEPT !.pc = "query", !.queries = @ + 1]
    /\ UNCHANGED <<registry, policies, sessions, nextID, dailySpent, dailyReset,
                   mu, now, call, sent, admitted, ledger, wl, approval, readers,
                   ctxDone, retry, pipe, emu, sends>>

\* WaitForReceiptWithBackoff: time.Sleep(backoff) returns, once the whole
\* of backoff has passed.
SleepReturns ==
    /\ poll.pc = "sleep"
    /\ poll' = [poll EXCEPT !.pc = "top",
                            !.satOut = @ \/ poll.cancelledAt = "wait"]
    /\ UNCHANGED <<registry, policies, sessions, nextID, dailySpent, dailyReset,
                   mu, now, call, sent, admitted, ledger, wl, approval, readers,
                   ctxDone, retry, pipe, emu, sends>>

\* The caller's context ends while the call runs: in a wait, or elsewhere.
PollCtxEnds ==
    /\ poll.pc \notin {"idle", "done"}
    /\ ~poll.ctxDone
    /\ poll' = [poll EXCEPT
                  !.ctxDone = TRUE,
                  !.cancelledAt = IF poll.pc \in {"select", "sleep"} THEN "wait"
                                  ELSE "busy",
                  !.queriesAtCancel = poll.queries]
    /\ UNCHANGED <<registry, policies, sessions, nextID, dailySpent, dailyReset,
                   mu, now, call, sent, admitted, ledger, wl, approval, readers,
                   ctxDone, retry, pipe, emu, sends>>

NextPoll ==
    \/ \E variant \in Variants, confirmations \in 0..MaxConfirmations,
          done \in BOOLEAN : WaitForReceipt(variant, confirmations, done)
    \/ \E holdsTx \in BOOLEAN : NewBlock(holdsTx)
    \/ \E found \in BOOLEAN : TransactionReceipt(found)
    \/ \E h \in 0..poll.height : BlockNumber(h)
    \/ BlockNumberErr
    \/ TickerC
    \/ PollCtxDoneCase
    \/ LoopTop
    \/ SleepReturns
    \/ PollCtxEnds

SpecPoll == InitPoll /\ [][NextPoll]_vars

\* ------------------------------------------------------------------ the session table
\* The sessions the host created before the calls looked at, under
\* identifiers of their own.
HostSessions == [i \in (MaxSessions + 1)..(MaxSessions + 2) |-> "none"]

\* The identifiers a session can have.
SessionIDs == 1..(MaxSessions + 2)

\* Engine.GetSession: the session stored under id, or none ({} is nil).
GetSession(id) == IF id \in DOMAIN sessions THEN {sessions[id]} ELSE {}

\* An engine holding the host's sessions, with or without a ReadOnlyPolicy.
InitTable ==
    /\ InitCommon
    /\ registry = BuiltinTools \cup CustomTools
    /\ wl = NoCheck
    /\ policies \in {<<>>, <<"readonly">>}
    /\ sessions = HostSessions
    /\ nextID = 1

\* One step of an Execute call under stateless policies.
TableStep(c) ==
    \/ EvaluateSnapshot(c)
    \/ PolicyCheck(c)
    \/ EvaluateReturnNil(c)
    \/ \E o \in {"fail", "ok"} : ToolInvoke(c, o)
    \/ Return(c)

\* Concurrent Execute calls, with and without a session attached.
ExecuteCalls ==
    \/ \E c \in LimitCallers, tool \in {"swap", "lookup"},
          s \in {0} \cup DOMAIN sessions :
          ExecuteStart(c, tool, EmptyArgs, s)
    \/ \E c \in LimitCallers : TableStep(c)

\* The host creates and closes sessions while agents call Execute.
NextTable ==
    \/ \E chain \in {"none", "wallet"} : CreateSession(chain)
    \/ \E id \in SessionIDs : CloseSession(id)
    \/ ExecuteCalls

SpecTable == InitTable /\ [][NextTable]_vars

\* Concurrent Execute calls alone.
NextTransient == ExecuteCalls

SpecTransient == InitTable /\ [][NextTransient]_vars

\* ------------------------------------------------------------------ locks
\* Enforcer.Evaluate, line 39: e.mu.RLock(). AddPolicy's write lock is never
\* held across a step, so the read lock is granted at once.
EvaluateRLock(c) ==
    /\ call[c].pc = "evaluate"
    /\ emu' = emu \cup {c}
    /\ call' = [call EXCEPT ![c].pc = "rlocked"]
    /\ UNCHANGED <<registry, policies, sessions, nextID, dailySpent, dailyReset,
                   mu, now, sent, admitted, ledger, wl, approval, readers,
                   ctxDone, retry, pipe, poll, sends>>

\* The faulty release: the read lock is kept until Evaluate returns.
RUnlockDeferred(c) == emu

\* e.mu.RUnlock()
RUnlock(c) == emu \ {c}

\* Enforcer.Evaluate, lines 40-42: copy the list and release the read lock
\* before the loop over the copy.
EvaluateCopy(c) ==
    /\ call[c].pc = "rlocked"
    /\ c \in emu
    /\ emu' = RUnlock(c)
    /\ call' = [call EXCEPT ![c].snapshot = policies, ![c].idx = 1,
                            ![c].pc = "check"]
    /\ UNCHANGED <<registry, policies, sessions, nextID, dailySpent, dailyReset,
                   mu, now, sent, admitted, ledger, wl, approval, readers,
                   ctxDone, retry, pipe, poll, sends>>

\* A host with one session whose enforcer holds the HITLPolicy, alone or
\* after a LimitPolicy with a daily ceiling.
InitLocks ==
    /\ InitCommon
    /\ registry = BuiltinTools \cup CustomTools
    /\ wl = NoCheck
    /\ policies \in {<<"hitl">>, <<"limitDaily", "hitl">>}
    /\ sessions = (1 :> "none")
    /\ nextID = 2

\* One step of caller c's Execute call with both locks in steps.
LockStep(c) ==
    \/ EvaluateRLock(c)
    \/ EvaluateCopy(c)
    \/ PolicyCheck(c)
    \/ EvaluateReturnNil(c)
    \/ LimitLock(c)
    \/ LimitCommit(c)
    \/ ConsoleApprove(c)
    \/ SelectRecv(c)
    \/ SelectTimeout(c)
    \/ \E o \in {"fail"} : ToolInvoke(c, o)
    \/ Return(c)

\* Two callers of Execute on the same engine, the operator at the console,
\* and the host adding a policy meanwhile.
NextLocks ==
    \/ \E c \in LimitCallers, args \in {[amount |-> HITLThreshold + 1, to |-> "A"]} :
          /\ Len(readers) < MaxApprovals
          /\ ExecuteStart(c, "transfer", args, 1)
    \/ \E c \in LimitCallers : LockStep(c)
    \/ \E g \in 1..MaxApprovals, line \in {"y"} : ReaderRead(g, line)
    \/ \E p \in {"limitDaily"} : AddPolicy(p)

SpecLocks == InitLocks /\ [][NextLocks]_vars

\* ------------------------------------------------------------------ concurrent sends
\* One gateway with a wallet, shared by the goroutines; the node has no
\* transaction of the signer yet.
InitNonce ==
    /\ InitEngine
    /\ registry = BuiltinTools \cup CustomTools
    /\ wl = NoCheck
    /\ policies = <<>>
    /\ sessions = [i \in {} |-> "none"]
    /\ nextID = 1
    /\ retry = IdleRetry(DefaultRetryConfig)
    /\ pipe = IdlePipe(TRUE)
    /\ poll = IdlePoll
    /\ sends = IdleSends

\* The calls of other goroutines that are inside SendTransaction.
InFlight(k) == {j \in Senders \ {k} : sends.calls[j].pc \notin {"idle", "done"}}

\* Goroutine k enters SendTransaction or DeployContract with the nonce
\* option given or nil: NewTxBuilder, then resolveNonce, which returns the
\* nonce given or goes on to client.PendingNonceAt.
SendEnters(k, given) ==
    /\ sends.calls[k].pc = "idle"
    /\ sends.pending < MaxNonce
    /\ sends' = [sends EXCEPT !.calls =
           [j \in Senders |->
               IF j = k
               THEN [IdleSend EXCEPT !.pc = IF given = {} THEN "nonce" ELSE "build",
                                     !.auto = (given = {}),
                                     !.nonce = given,
                                     !.with = InFlight(k)]
               ELSE IF j \in InFlight(k)
               THEN [sends.calls[j] EXCEPT !.with = @ \cup {k}]
               ELSE sends.calls[j]]]
    /\ UNCHANGED <<registry, policies, sessions, nextID, dailySpent, dailyReset,
                   mu, now, call, sent, admitted, ledger, wl, approval, readers,
                   ctxDone, retry, pipe, poll, emu>>

\* What PendingNonceAt returns: the account's next nonce as the node counts
\* it, which knows only the transactions broadcast to it.
FetchedNonce(k) == sends.pending

\* resolveNonce's client.PendingNonceAt returns, after its retries: the
\* nonce, or the error that ends the call.
PendingNonceAt(k, o) ==
    /\ sends.calls[k].pc = "nonce"
    /\ sends' = [sends EXCEPT !.calls[k] =
           IF o = "ok" THEN [@ EXCEPT !.pc = "build", !.nonce = {FetchedNonce(k)}]
           ELSE [@ EXCEPT !.pc = "done", !.result = "error"]]
    /\ UNCHANGED <<registry, policies, sessions, nextID, dailySpent, dailyReset,
                   mu, now, call, sent, admitted, ledger, wl, approval, readers,
                   ctxDone, retry, pipe, poll, emu>>

\* buildAndSignLegacy or buildAndSignDynamicFee with the nonce in hand: gas
\* and fees are resolved and the transaction is signed, or the call fails.
BuildAndSign(k, o) ==
    /\ sends.calls[k].pc = "build"
    /\ sends' = [sends EXCEPT !.calls[k] =
           IF o = "ok" THEN [@ EXCEPT !.pc = "broadcast"]
           ELSE [@ EXCEPT !.pc = "done", !.result = "error"]]
    /\ UNCHANGED <<registry, policies, sessions, nextID, dailySpent, dailyReset,
                   mu, now, call, sent, admitted, ledger, wl, approval, readers,
                   ctxDone, retry, pipe, poll, emu>>

\* g.client.ec.SendTransaction(ctx, signedTx): the signed transaction goes
\* out; the node takes one carrying the account's next nonce into its pool,
\* and answers with an error or a replacement for any other.
BroadcastSigned(k, o) ==
    /\ sends.calls[k].pc = "broadcast"
    /\ sends' = [sends EXCEPT
           !.calls[k] = [@ EXCEPT !.pc = "done",
                                  !.result = IF o = "ok" THEN "sent" ELSE "senderror"],
           !.pending = IF o = "ok" /\ sends.calls[k].nonce = {sends.pending}
                       THEN @ + 1 ELSE @]
    /\ UNCHANGED <<registry, policies, sessions, nextID, dailySpent, dailyReset,
                   mu, now, call, sent, admitted, ledger, wl, approval, readers,
                   ctxDone, retry, pipe, poll, emu>>

\* The goroutine takes the result and may call again.
SendReturns(k) ==
    /\ sends.calls[k].pc = "done"
    /\ sends' = [sends EXCEPT !.calls =
           [j \in Senders |->
               IF j = k THEN IdleSend
               ELSE [sends.calls[j] EXCEPT !.with = @ \ {k}]]]
    /\ UNCHANGED <<registry, policies, sessions, nextID, dailySpent, dailyReset,
                   mu, now, call, sent, admitted, ledger, wl, approval, readers,
                   ctxDone, retry, pipe, poll, emu>>

NextNonce ==
    \/ \E k \in Senders, given \in {{}} \cup {{n} : n \in 0..MaxNonce} :
          SendEnters(k, given)
    \/ \E k \in Senders, o \in {"ok", "err"} : PendingNonceAt(k, o)
    \/ \E k \in Senders, o \in {"ok", "err"} : BuildAndSign(k, o)
    \/ \E k \in Senders, o \in {"ok", "err"} : BroadcastSigned(k, o)
    \/ \E k \in Senders : SendReturns(k)

SpecNonce == InitNonce /\ [][NextNonce]_vars

\* ------------------------------------------------------------------ claims
InSeq(x, seq) == \E i \in 1..Len(seq) : seq[i] = x
Last(seq) == seq[Len(seq)]

\* C1: a transaction is signed or broadcast only after the policy chain has
\* evaluated that operation and returned no denial, on every path of the
\* public API (Engine.Execute and the SDK's session-bound EVM client).
C1_SignedOnlyAfterPolicyPass ==
    \A e \in sent : e.eval = "pass"

\* C2: for a tool name that is not in the registry, Execute returns the
\* not-found error; Evaluate is never invoked and no tool body runs.
C2_UnknownToolNotEvaluated ==
    \A c \in Callers :
        (call[c].pc # "idle" /\ call[c].tool \notin registry) =>
            /\ call[c].pc = "done"
            /\ call[c].result = "notfound"
            /\ call[c].eval = "none"
            /\ call[c].snapshot = <<>>
            /\ call[c].consulted = <<>>
            /\ ~call[c].invoked

C2_Witness ==
    \E c \in Callers :
        /\ call[c].pc = "done"
        /\ call[c].result = "notfound"
        /\ call[c].tool = "lookup"
        /\ Len(policies) > 0

\* C3: within one Execute call the tool body runs only after Evaluate returned
\* nil; if Evaluate returns a denial, Execute returns an error wrapping it and
\* the tool body is never invoked.
C3_EvaluateBeforeTool ==
    \A c \in Callers :
        LET r == call[c] IN
        /\ (r.pc = "invoke" \/ r.invoked) =>
               /\ r.eval = "pass"
               /\ Len(r.consulted) = Len(r.snapshot)
               /\ \A i \in 1..Len(r.consulted) : r.consulted[i][2] = "pass"
        /\ (\E i \in 1..Len(r.consulted) : r.consulted[i][2] = "deny") =>
               /\ r.pc = "done"
               /\ r.result = "denied"
               /\ r.deniedBy = Last(r.consulted)[1]
               /\ ~r.invoked

C3_Witness ==
    \E c \in Callers :
        /\ call[c].pc = "done"
        /\ call[c].invoked
        /\ Len(call[c].snapshot) = 2

\* C4: Evaluate consults the policies in the order they were added, stops at
\* the first denial and returns it, consulting no later policy; it returns nil
\* exactly when every policy of the list passed (the empty list included).
C4_InOrderFirstDenialStops ==
    \A c \in Callers :
        LET r == call[c]
            n == Len(r.consulted)
        IN
        /\ n <= Len(r.snapshot)
        /\ \A i \in 1..n :
               /\ r.consulted[i][1] = r.snapshot[i]
               /\ r.consulted[i][1] = "readonly" =>
                      r.consulted[i][2] = ReadOnlyCheck(r.tool)
               /\ r.consulted[i][1] = "whitelist" =>
                      r.consulted[i][2] = WhitelistCheck(r.args)
               /\ r.consulted[i][2] = "deny" =>
                      /\ i = n
                      /\ r.eval = "deny"
                      /\ r.deniedBy = r.snapshot[i]
        /\ r.eval = "pass" <=>
               /\ r.pc \in {"invoke", "done"}
               /\ r.result # "notfound"
               /\ n = Len(r.snapshot)
               /\ \A i \in 1..n : r.consulted[i][2] = "pass"

C4_Witness ==
    \E c \in Callers :
        /\ call[c].eval = "deny"
        /\ Len(call[c].snapshot) = 2
        /\ Len(call[c].consulted) = 1

\* C5: an AddPolicy concurrent with an Evaluate never affects it: Evaluate
\* consults exactly the list as it was at its snapshot, and a policy appended
\* later is consulted only by evaluations that start later.
C5_SnapshotIsolatesEvaluate ==
    \A c \in Callers :
        LET r == call[c] IN
        r.pc \in {"check", "limit_lock", "limit_commit", "hitl_wait", "invoke", "done"} =>
            /\ Len(r.snapshot) <= Len(policies)
            /\ SubSeq(policies, 1, Len(r.snapshot)) = r.snapshot
            /\ r.idx <= Len(r.snapshot) + 1
            /\ \A i \in 1..Len(r.consulted) :
                   /\ i <= Len(r.snapshot)
                   /\ r.consulted[i][1] = policies[i]
            /\ r.eval = "pass" => Len(r.consulted) = Len(r.snapshot)

C5_Witness ==
    \E c \in Callers :
        /\ call[c].eval = "pass"
        /\ Len(call[c].snapshot) = 1
        /\ Len(policies) = 2
        /\ policies[2] = "readonly"
        /\ call[c].tool = "transfer"

\* C6: with a ReadOnlyPolicy in the chain, Execute of a write tool (transfer,
\* send, swap, deploy, approve) returns a policy denial and never invokes the
\* tool body, whatever other policies are installed and in whatever order;
\* ReadOnlyPolicy never denies a tool outside that set.
C6_ReadOnlyDeniesWrites ==
    \A c \in Callers :
        LET r == call[c] IN
        /\ (r.tool \in {"transfer", "send", "swap", "deploy", "approve"}
            /\ InSeq("readonly", r.snapshot)) =>
               /\ r.pc # "invoke"
               /\ ~r.invoked
               /\ r.pc = "done" => r.result = "denied"
        /\ \A i \in 1..Len(r.consulted) :
               (r.consulted[i] = <<"readonly", "deny">>) =>
                   r.tool \in {"transfer", "send", "swap", "deploy", "approve"}

C6_Witness ==
    \E c \in Callers :
        /\ call[c].pc = "done"
        /\ call[c].tool = "deploy"
        /\ Len(call[c].snapshot) = 2
        /\ call[c].snapshot[2] = "readonly"
        /\ call[c].deniedBy = "readonly"

\* C9: whenever Execute returns a policy denial, from the LimitPolicy or from
\* any other policy of the chain, the LimitPolicy's accumulated spend is what
\* it was before the call: the call has added nothing to it.
C9_DeniedCallAddsNoSpend ==
    \A c \in Callers :
        call[c].result = "denied" => call[c].committed = 0

\* The step in which a LimitPolicy's Check returns to Evaluate's loop for a
\* value-bearing call of caller c (its verdict is appended to consulted).
LimitVerdictStep(c) ==
    /\ call[c].pc \in {"check", "limit_commit"}
    /\ call[c].idx \in 1..Len(call[c].snapshot)
    /\ call[c].snapshot[call[c].idx] \in LimitObjs
    /\ ValueBearing(call[c].tool, call[c].args)
    /\ Len(call'[c].consulted) = Len(call[c].consulted) + 1

\* C7: a LimitPolicy denies a value-bearing call exactly when the amount is
\* strictly greater than the per-transaction ceiling or the accumulated window
\* spend plus the amount is strictly greater than the daily ceiling; otherwise
\* it passes and (when a daily ceiling is set) the accumulated spend grows by
\* exactly the amount.
C7_LimitDeniesExactlyAboveCeilings ==
    [][\A c \in EngineCallers :
          LimitVerdictStep(c) =>
              LET r == call[c]
                  p == r.snapshot[r.idx]
                  a == "agent"
                  amt == r.args.amount
                  v == Last(call'[c].consulted)
              IN  /\ v[1] = p
                  /\ (v[2] = "deny") <=>
                         \/ (HasMaxTx(p) /\ amt > MaxTxValue)
                         \/ (HasDaily(p) /\ dailySpent[p][a] + amt > DailyLimit)
                  /\ (v[2] = "pass" /\ HasDaily(p)) =>
                         dailySpent'[p][a] = dailySpent[p][a] + amt
                  /\ v[2] \in {"pass", "deny"}]_vars

C7_Witness ==
    \E c \in EngineCallers :
        /\ call[c].snapshot = <<"limitBoth">>
        /\ call[c].consulted = <<<<"limitBoth", "pass">>>>
        /\ call[c].args = [amount |-> MaxTxValue, to |-> "A"]
        /\ call[c].committed = MaxTxValue
        /\ dailySpent["limitBoth"]["agent"] = DailyLimit

\* C8: a Check that returns a denial leaves the accumulated spend exactly as it
\* was, so the spend always equals the sum of the amounts of the checks that
\* passed in the current window.
C8_DenialLeavesSpend ==
    /\ [](\A p \in LimitObjs : \A a \in DOMAIN dailySpent[p] :
             dailySpent[p][a] = admitted[p][a])
    /\ [][\A c \in EngineCallers :
             (LimitVerdictStep(c) /\ Last(call'[c].consulted)[2] = "deny") =>
                 \A p \in LimitObjs : \A a \in DOMAIN dailySpent[p] :
                     /\ a \in DOMAIN dailySpent'[p]
                     /\ dailySpent'[p][a] = dailySpent[p][a]]_vars

C8_Witness ==
    \E c \in EngineCallers :
        /\ call[c].result = "denied"
        /\ call[c].deniedBy = "limitDaily"
        /\ call[c].committed = 0
        /\ dailySpent["limitDaily"]["agent"] > 0
        /\ dailySpent["limitDaily"]["agent"] < DailyLimit

\* C10: LimitPolicy.Check reads the accumulated spend, compares it with the
\* daily ceiling and commits the new value as one atomic step under the
\* policy's mutex, so concurrent Execute calls can never together commit more
\* than the ceiling.
C10_CheckAndCommitAtomic ==
    \A p \in LimitObjs :
        LET holders == {c \in Callers : call[c].pc = "limit_commit"
                                        /\ call[c].snapshot[call[c].idx] = p}
        IN  /\ Cardinality(holders) <= 1
            /\ holders = mu[p]
            /\ \A c \in holders :
                   call[c].newSpent = dailySpent[p]["agent"] + call[c].args.amount
            /\ \A a \in DOMAIN dailySpent[p] :
                   /\ dailySpent[p][a] <= DailyLimit
                   /\ dailySpent[p][a] = admitted[p][a]

C10_Witness ==
    \E c, d \in LimitCallers :
        /\ c # d
        /\ call[c].pc = "limit_commit"
        /\ call[d].pc = "limit_lock"
        /\ call[c].newSpent <= DailyLimit
        /\ call[c].newSpent + call[d].args.amount > DailyLimit
        /\ call[d].args.amount <= DailyLimit

\* The sum of the entries of history l whose session is in S.
RECURSIVE LedgerSum(_, _)
LedgerSum(l, S) ==
    LET D == {k \in DOMAIN l : k[1] \in S}
    IN  IF D = {} THEN 0
        ELSE LET k == CHOOSE j \in D : TRUE
             IN  l[k] + LedgerSum([j \in (DOMAIN l) \ {k} |-> l[j]], S)

\* C11: the daily limit is tracked per session: a Check of one session is
\* denied by the daily ceiling only when the amounts admitted for that same
\* session plus the new amount exceed the ceiling, so what another session
\* spent never reduces a session's headroom.
C11_SessionsHaveOwnHeadroom ==
    \A c \in Callers :
        LET r == call[c] IN
        (/\ r.result = "denied"
         /\ r.deniedBy \in LimitObjs
         /\ ~(HasMaxTx(r.deniedBy) /\ r.args.amount > MaxTxValue)) =>
            LedgerSum(ledger[r.deniedBy], {r.sess}) + r.args.amount > DailyLimit

\* C12: the daily limit is a rolling 24-hour ceiling: at every instant the
\* total amount admitted for the identity in the trailing 24 hours is at most
\* the daily ceiling.
C12_RollingCeiling ==
    \A p \in LimitObjs :
        HasDaily(p) => LedgerSum(ledger[p], DOMAIN sessions) <= DailyLimit

C14_AllowedTakesPrecedence ==
    (/\ wl.verdict # "none"
     /\ wl.kind = "string"
     /\ wl.to \in wl.allowed
     /\ wl.to \in wl.blocked) => wl.verdict = "pass"

\* C15: the address lists restrict write operations only: for a tool outside
\* the write set WhitelistPolicy.Check passes whatever the arguments are.
C15_ReadToolsUnrestricted ==
    (/\ wl.verdict # "none"
     /\ wl.tool \notin {"transfer", "send", "swap", "deploy", "approve"}) =>
        wl.verdict = "pass"

\* The step in which HITLPolicy.Check returns to Evaluate's loop for a call of
\* caller c that carries an amount (its verdict is appended to consulted).
HITLVerdictStep(c) ==
    /\ call[c].pc \in {"check", "hitl_wait"}
    /\ call[c].idx \in 1..Len(call[c].snapshot)
    /\ call[c].snapshot[call[c].idx] = "hitl"
    /\ "amount" \in DOMAIN call[c].args
    /\ Len(call'[c].consulted) = Len(call[c].consulted) + 1

\* What C16 asks of one return of HITLPolicy.Check on a tool of the set T.
HITLOutcomeRule(c, T) ==
    LET r == call[c]
        amt == r.args.amount
        v == Last(call'[c].consulted)[2]
    IN  /\ v \in {"pass", "deny"}
        /\ (r.tool \in T /\ amt > HITLThreshold /\ v = "pass") =>
               /\ r.pc = "hitl_wait"
               /\ approval[c].phase = "waiting"
               /\ approval'[c].outcome = "approved"
               /\ approval'[c].response \in {"y", "yes"}
        /\ (r.tool \in T /\ amt > HITLThreshold /\ r.pc = "hitl_wait"
            /\ approval'[c].outcome \in {"rejected", "timeout", "readerr"}) =>
               v = "deny"
        /\ amt <= HITLThreshold => (v = "pass" /\ r.pc = "check")

\* C16 as stated: on a write tool (transfer, send, swap, deploy, approve)
\* whose amount exceeds the threshold, HITLPolicy.Check passes only after an
\* affirmative response; a negative response or the timeout yields a denial;
\* an amount not above the threshold passes without prompting.
C16_WriteToolsNeedApproval ==
    [][\A c \in EngineCallers :
          HITLVerdictStep(c) =>
              HITLOutcomeRule(c, {"transfer", "send", "swap", "deploy", "approve"})]_vars

\* C16 amended: the same for the value-bearing tools transfer, send and swap,
\* the tools HITLPolicy.Check applies to.
C16_ValueToolsNeedApproval ==
    [][\A c \in EngineCallers :
          HITLVerdictStep(c) =>
              HITLOutcomeRule(c, {"transfer", "send", "swap"})]_vars

C16_Witness ==
    \E c \in EngineCallers :
        /\ call[c].tool = "transfer"
        /\ call[c].args.amount > HITLThreshold
        /\ call[c].consulted = <<<<"hitl", "pass">>>>
        /\ approval[c].outcome = "approved"
        /\ approval[c].response = "yes"

\* C17: when no response arrives, HITLPolicy.Check on an over-threshold
\* operation terminates: the wait always ends, and it ends in the timed-out
\* denial.
C17_ApprovalTerminates ==
    /\ \A c \in EngineCallers :
           (call[c].pc = "hitl_wait") ~> (call[c].pc # "hitl_wait")
    /\ [][\A c \in EngineCallers :
             (/\ approval[c].phase = "waiting"
              /\ approval'[c].phase = "returned"
              /\ readers[approval[c].reader].st = "reading") =>
                 /\ approval'[c].outcome = "timeout"
                 /\ call'[c].pc = "done"
                 /\ call'[c].result = "denied"
                 /\ call'[c].deniedBy = "hitl"]_vars

C17_Witness ==
    \E c \in EngineCallers :
        /\ approval[c].phase = "returned"
        /\ approval[c].outcome = "timeout"
        /\ readers[approval[c].reader].st = "reading"
        /\ call[c].result = "denied"
        /\ call[c].deniedBy = "hitl"

\* C18: after HITLPolicy.Check returned because the timeout elapsed, the
\* goroutine started to read the operator's response has terminated.
C18_NoReaderLeftBehind ==
    \A c \in EngineCallers :
        (approval[c].phase = "returned" /\ approval[c].outcome = "timeout") =>
            readers[approval[c].reader].st = "exited"

\* C19: if the caller's context is done while HITLPolicy.Check waits for
\* approval, Check returns a denial for the cancellation instead of going on
\* to wait for the response or the policy's own timeout.
C19_WaitCancellable ==
    \A c \in EngineCallers :
        (approval[c].phase = "returned" /\ approval[c].ctxDone) =>
            approval[c].outcome = "cancelled"

\* The step in which a HITLPolicy's or a LimitPolicy's Check returns to
\* Evaluate's loop for a call of caller c that carries an amount.
GateVerdictStep(c) ==
    /\ call[c].pc \in {"check", "limit_commit", "hitl_wait"}
    /\ call[c].idx \in 1..Len(call[c].snapshot)
    /\ call[c].snapshot[call[c].idx] \in {"hitl"} \cup LimitObjs
    /\ "amount" \in DOMAIN call[c].args
    /\ Len(call'[c].consulted) = Len(call[c].consulted) + 1

\* What C20 asks of one return of Check on a tool of the set T: an
\* over-threshold amount does not pass HITLPolicy without approval, an amount
\* above a configured ceiling is denied by LimitPolicy.
GateRule(c, T) ==
    LET r == call[c]
        p == r.snapshot[r.idx]
        amt == r.args.amount
        v == Last(call'[c].consulted)[2]
    IN  /\ (p = "hitl" /\ r.tool \in T /\ amt > HITLThreshold /\ v = "pass") =>
               /\ r.pc = "hitl_wait"
               /\ approval'[c].outcome = "approved"
        /\ (/\ p \in LimitObjs
            /\ r.tool \in T
            /\ \/ (HasMaxTx(p) /\ amt > MaxTxValue)
               \/ (HasDaily(p) /\ amt > DailyLimit)) =>
               v = "deny"

AllFailed(seq, n) == \A i \in 1..n : seq[i] \in RPCErrors

\* C21: when withRetry has returned under MaxAttempts = N: a success comes
\* after k < N failed calls of the operation and exactly k + 1 calls in all;
\* the retries-exhausted error comes after exactly N calls that all failed,
\* wraps the last of these failures, reports N attempts, and no wait followed
\* the last attempt (N - 1 waits in all). Conversely k < N failures followed
\* by a success end in success, and N failures end in the exhausted error.
C21_RetryCounts ==
    LET N == retry.cfg.MaxAttempts
        seq == retry.outcomes
    IN  retry.pc = "done" =>
          /\ retry.result = "ok" =>
                \E k \in 0..(N - 1) :
                    /\ retry.calls = k + 1
                    /\ Len(seq) = k + 1
                    /\ AllFailed(seq, k)
                    /\ seq[k + 1] = "ok"
          /\ retry.result = "exhausted" =>
                /\ retry.calls = N
                /\ Len(seq) = N
                /\ AllFailed(seq, N)
                /\ retry.wrapped = seq[N]
                /\ retry.reported = N
                /\ retry.waits = N - 1
          /\ (seq # <<>> /\ Last(seq) = "ok") => retry.result = "ok"
          /\ (Len(seq) = N /\ AllFailed(seq, N)) => retry.result = "exhausted"

\* withRetry gave up after more than one attempt, the failures differing.
C21_Witness ==
    /\ retry.pc = "done"
    /\ retry.result = "exhausted"
    /\ retry.cfg.MaxAttempts >= 2
    /\ retry.outcomes[1] # retry.wrapped

\* C22: once the context ended while withRetry was waiting between attempts,
\* the operation is not called again and withRetry returns the context's
\* error, not the retries-exhausted one.
C22_CancelDuringWait ==
    [][(retry.cancelledAt = "wait" /\ retry'.cancelledAt = "wait") =>
          /\ retry'.calls = retry.calls
          /\ retry'.pc = "done" => retry'.result = "cancelled"]_vars

\* withRetry returned the context's error with attempts left over.
C22_Witness ==
    /\ retry.cancelledAt = "wait"
    /\ retry.pc = "done"
    /\ retry.result = "cancelled"
    /\ retry.calls < retry.cfg.MaxAttempts

\* C23: every remote operation of the write path runs under withRetry: none
\* is made on the raw client, and a call that reports a failed broadcast has
\* attempted the broadcast MaxAttempts times.
C23_EveryRemoteOpRetried ==
    /\ pipe.direct = {}
    /\ (pipe.pc = "done" /\ pipe.failed = "send") =>
          pipe.broadcasts = retry.cfg.MaxAttempts

\* A transaction in its final form: signed, a nonce, a gas limit, and either
\* a gas price alone or a fee cap and a tip cap alone.
FullyResolved(t) ==
    /\ t.signed
    /\ t.nonce # {}
    /\ t.gas > 0
    /\ \/ t.type = "legacy" /\ t.gasPrice # {} /\ t.gasFeeCap = {} /\ t.gasTipCap = {}
       \/ t.type = "dynamic" /\ t.gasPrice = {} /\ t.gasFeeCap # {} /\ t.gasTipCap # {}

\* C26: whatever SendTransaction or DeployContract hands to the network, or
\* is about to hand to it, is signed and fully resolved.
C26_OnlyResolvedSignedBroadcast ==
    /\ \A t \in pipe.handed : FullyResolved(t)
    /\ pipe.pc = "broadcast" => FullyResolved(pipe.tx)

\* A deployment was broadcast as a dynamic-fee transaction whose nonce, gas
\* limit, tip and fee cap were all resolved by the builder.
C26_Witness ==
    /\ pipe.entry = "DeployContract"
    /\ pipe.opts = [ZeroOpts EXCEPT !.DynamicFee = TRUE]
    /\ pipe.broadcasts = 1
    /\ \E t \in pipe.handed : t.type = "dynamic" /\ t.gasFeeCap = {FeeCap(1, 1)}

\* C27: when a remote call of the builder (chain id, nonce, header, gas
\* estimate, price, tip) or the signing failed, or the gateway has no wallet,
\* the call broadcasts nothing and returns an error.
C27_BuildFailureMeansNoBroadcast ==
    (pipe.faults # {} \/ (pipe.pc # "idle" /\ ~pipe.wallet)) =>
        /\ pipe.broadcasts = 0
        /\ pipe.handed = {}
        /\ pipe.pc # "broadcast"
        /\ pipe.pc = "done" /\ pipe.result = "error"

\* The signing failed after the builder had resolved the nonce, and the call
\* has returned the error without a broadcast.
C27_Witness ==
    /\ pipe.faults = {"sign"}
    /\ pipe.failed = "sign"
    /\ pipe.tx.nonce # {}
    /\ pipe.result = "error"
    /\ pipe.broadcasts = 0

\* C24: a polling call returns a receipt only when it holds a receipt and
\* the chain height it was given, less the receipt's block height, has
\* reached the confirmation count; the depth it returns is that difference.
C24_ReceiptOnlyAtDepth ==
    poll.result = "receipt" =>
        /\ poll.receipt # {}
        /\ \A b \in poll.receipt, h \in poll.asked :
              /\ h - b >= poll.confirmations
              /\ poll.blocks = h - b

\* C25: when the context ended while a polling call was waiting between
\* polls, the call does not sit out the rest of the wait, makes no further
\* query, and returns the context's error.
C25_PollCancelPrompt ==
    poll.cancelledAt = "wait" =>
        /\ ~poll.satOut
        /\ poll.queries = poll.queriesAtCancel
        /\ poll.pc = "done" => poll.result = "cancelled"

\* C28: the session table's lifecycle. A step that creates a session stores
\* it under a fresh identifier, where GetSession finds it, and touches no
\* other entry; an entry appears in no other way, so a closed identifier
\* stays absent; an entry that stays is unchanged; a step removes at most one
\* entry, never while creating, so closing one session removes no other;
\* and CloseSession of an identifier that is not in the table leaves the
\* table as it is.
C28_SessionTableLifecycle ==
    /\ [](\A id \in SessionIDs \ DOMAIN sessions : Removed(id) = sessions)
    /\ [][/\ \A fresh \in {nextID} :
                nextID' # nextID =>
                    /\ GetSession(fresh) = {}
                    /\ GetSession(fresh)' # {}
                    /\ \A j \in DOMAIN sessions : GetSession(j)' = GetSession(j)
          /\ \A id \in SessionIDs :
                /\ (GetSession(id) = {} /\ GetSession(id)' # {}) =>
                       (id = nextID /\ nextID' = nextID + 1)
                /\ (GetSession(id) # {} /\ GetSession(id)' # {}) =>
                       GetSession(id)' = GetSession(id)
                /\ (GetSession(id) # {} /\ GetSession(id)' = {}) =>
                       /\ nextID' = nextID
                       /\ \A j \in (DOMAIN sessions) \ {id} :
                              GetSession(j)' = GetSession(j)]_vars

\* The host created a session with a chain, which GetSession returns, and
\* closed one of its earlier sessions, leaving the other in place.
C28_Witness ==
    /\ GetSession(1) = {"wallet"}
    /\ GetSession(MaxSessions + 1) = {}
    /\ GetSession(MaxSessions + 2) = {"none"}

\* The callers whose Execute call runs on a transient session.
OnTransient == {c \in LimitCallers : call[c].transient /\ call[c].pc \notin {"idle", "done"}}

WindowStep(c) == call[c].pc = "limit_lock" /\ call'[c].pc = "limit_commit"

C31_WaitsWithinMaxBackoff ==
    /\ Len(retry.slept) >= 1 => retry.slept[1] = retry.cfg.InitialBackoff
    /\ \A i \in 2..Len(retry.slept) :
          retry.slept[i] = Min((retry.slept[i - 1] * retry.cfg.BackoffFactor) \div 2,
                               retry.cfg.MaxBackoff)
    /\ \A i \in 1..Len(retry.slept) : retry.slept[i] <= retry.cfg.MaxBackoff

\* C32: whichever constructor built the Client and whatever RetryConfig it
\* was given, a call of withRetry that has returned invoked the operation at
\* least once, and a retries-exhausted error wraps an error the operation
\* returned.
C32_AtLeastOneAttempt ==
    retry.pc = "done" =>
        /\ retry.calls >= 1
        /\ retry.result = "exhausted" => retry.wrapped \in RPCErrors

\* C33: a transaction the builder has assembled is a dynamic-fee transaction
\* exactly when the caller set DynamicFee or gave a fee cap or a tip cap and
\* the latest header carried a base fee; a caller who asked for dynamic fees
\* gets a legacy transaction only as the fallback after a header without
\* base fee.
C33_FeeModelSelection ==
    pipe.tx.type # "none" =>
        LET requested == \/ pipe.opts.DynamicFee
                         \/ pipe.opts.GasFeeCap # {}
                         \/ pipe.opts.GasTipCap # {}
        IN  /\ pipe.tx.type = "dynamic" <=> (requested /\ pipe.baseFee # {})
            /\ (requested /\ pipe.tx.type = "legacy") =>
                   "HeaderByNumber" \in pipe.direct

\* C34: the signature signTransaction attaches comes from a 65-byte
\* signature and carries recovery value 0 for a last byte of 27, 1 for 28,
\* and the last byte itself for 0 or 1; a signature of any other length ends
\* the call with the signing error and nothing is attached or broadcast.
C34_RecoveryByteNormalized ==
    \A o \in pipe.sig :
        /\ o.length # SignatureLength =>
               /\ pipe.failed = "sign"
               /\ pipe.result = "error"
               /\ pipe.tx.v = {}
               /\ ~pipe.tx.signed
               /\ pipe.broadcasts = 0
        /\ pipe.tx.v # {} =>
               /\ o.length = SignatureLength
               /\ o.last = 27 => pipe.tx.v = {0}
               /\ o.last = 28 => pipe.tx.v = {1}
               /\ o.last \in {0, 1} => pipe.tx.v = {o.last}

\* A transaction signed with a signature whose last byte was 28 was
\* broadcast carrying recovery value 1.
C34_Witness ==
    /\ pipe.result = "ok"
    /\ pipe.broadcasts = 1
    /\ pipe.tx.signed
    /\ pipe.tx.v = {1}
    /\ \E o \in pipe.sig : o.last = 28 /\ o.length = 65

\* C35: a caller holds the enforcer's read lock only between RLock and the
\* copy of the list, never once a policy's Check is running; it holds a
\* LimitPolicy's lock only for that policy's check-and-commit step; and a
\* caller waiting for the operator's approval, or inside the tool body,
\* holds neither, so AddPolicy and other callers' Evaluate are not kept
\* waiting by it.
C35_NoLockAcrossWait ==
    \A c \in LimitCallers :
        /\ c \in emu => call[c].pc = "rlocked"
        /\ \A p \in LimitObjs :
              c \in mu[p] => /\ call[c].pc = "limit_commit"
                             /\ CurrentPolicy(c) = p
        /\ call[c].pc \in {"hitl_wait", "invoke"} =>
              /\ c \notin emu
              /\ \A p \in LimitObjs : c \notin mu[p]
              /\ \A d \in emu : call[d].pc = "rlocked"

\* While caller 1 waits for the operator, with the list it copied before the
\* host added a policy, caller 2 has copied the longer list, was approved,
\* and is inside the LimitPolicy's check-and-commit step.
C35_Witness ==
    /\ call[1].pc = "hitl_wait"
    /\ approval[1].phase = "waiting"
    /\ call[1].snapshot = <<"hitl">>
    /\ policies = <<"hitl", "limitDaily">>
    /\ call[2].snapshot = policies
    /\ call[2].pc = "limit_commit"
    /\ mu["limitDaily"] = {2}
    /\ emu = {}

\* C36: a polling call that has returned a receipt was given a chain height
\* at or above the receipt's block: a height below it is never taken for a
\* confirmed transaction.
C36_NoConfirmationBelowReceipt ==
    poll.result = "receipt" =>
        \A b \in poll.receipt, h \in poll.asked : h >= b

\* C37: the spend recorded for an agent is never negative, and within one
\* window (its start unchanged) no step makes it smaller: no Check gives
\* daily headroom back.
C37_SpendNeverShrinks ==
    [][\A p \in LimitObjs : \A a \in DOMAIN dailySpent'[p] :
          /\ dailySpent'[p][a] >= 0
          /\ (a \in DOMAIN dailySpent[p] /\ a \in DOMAIN dailyReset[p]
                 /\ dailyReset'[p] = dailyReset[p]) =>
                 dailySpent'[p][a] >= dailySpent[p][a]]_vars

\* C38: when Execute returns a tool failure for a call whose session has no
\* wallet-backed chain, so that nothing was signed or sent, the LimitPolicy's
\* accumulated spend is what it was before the call.
C38_FailedToolAddsNoSpend ==
    \A c \in Callers :
        (call[c].result = "toolfailed" /\ call[c].chain # "wallet") =>
            call[c].committed = 0

\* C39: a line the operator types while an approval is waiting is read by the
\* goroutine that approval started, never by a goroutine left reading by an
\* earlier prompt.
C39_ResponseReachesWaitingApproval ==
    [][\A g \in 1..Len(readers) :
          (readers[g].st = "reading" /\ readers'[g].st = "sending") =>
              \A c \in EngineCallers :
                  approval[c].phase = "waiting" => approval[c].reader = g]_vars

\* C40: two calls of SendTransaction or DeployContract on one gateway that
\* overlapped in time, neither given a nonce, have not both signed and
\* broadcast a transaction carrying the same nonce.
C40_ConcurrentSendsDistinctNonces ==
    \A k \in Senders : \A j \in sends.calls[k].with :
        LET a == sends.calls[k]
            b == sends.calls[j]
        IN  (/\ a.auto /\ b.auto
             /\ a.result \in {"sent", "senderror"}
             /\ b.result \in {"sent", "senderror"}) =>
                a.nonce # b.nonce

====
